---- MODULE Spec2Model ----
(***************************************************************************)
(* Peer connection negotiation core: WebRTCManager (services/webrtc.ts)    *)
(* with the AES session key store (AESService), the mock PGP service and   *)
(* the signaling relay behind the api client.                              *)
(*                                                                         *)
(* The manager is single threaded.  An async function runs atomically up   *)
(* to an await on a real asynchronous operation (a transport operation or  *)
(* a relay request); each such await is a suspension point and the code    *)
(* after it is a separate action.  Awaits on the mock crypto functions,    *)
(* which contain no await themselves, resume in the same macrotask and are *)
(* folded into the surrounding step.  Consecutive awaits between which no  *)
(* manager state is read or written are one suspension.                    *)
(***************************************************************************)
EXTENDS Integers, Sequences, FiniteSets, TLC

\* ---------------------------------------------------------------- bounds
MaxPcs    == 2   \* RTCPeerConnection objects ever created by one manager
MaxTicks  == 2   \* poll ticks of one manager in progress at the same time
MaxInbox  == 1   \* envelopes waiting in one relay inbox
MaxTimers == 2   \* interval timers alive at the same time in one manager
MaxRemote == 3   \* envelopes sent by endpoints outside the model
MaxEvents == 2   \* transport and channel events raised by the WebRTC library
MaxKeys   == 2   \* key buffers one AESService allocates through direct calls
MaxNonces == 2   \* encrypt calls recorded under one key

\* ------------------------------------------------------------ identities
Users    == {"@alice", "@bob", "@carol"}
Managers == {"@alice", "@bob"}
Null     == "null"

NoKey      == <<"nokey">>
RemoteKeys == {<<"key", "remote", 0>>}  \* keys endpoints outside the model generate
Candidates == {"c1", "c2"}     \* network-path candidates
\* strings are sequences of UTF-16 code units: "hi"
Texts      == {<<104, 105>>}   \* application messages
IVs        == {"iv1", "iv2"}   \* values Math.random can give a nonce
\* strings handed to AESService.encrypt directly: "", "hi", U+1F600 (a
\* surrogate pair), a lone high and a lone low surrogate
Plaintexts == {<<>>, <<104, 105>>, <<55357, 56832>>, <<55357>>, <<56832, 104>>}
\* the 16 bytes of a tag field: the zero bytes encrypt writes, or others
Tags       == {"zero16", "other16"}

\* generateSessionKey: 32 random bytes, a value no other call returns; n counts
\* the key buffers of manager m
FreshKey(m, n) == <<"key", m, n>>

\* UTF-16 code units of the identifiers, for the > of handleOffer
CodeUnits(u) ==
    CASE u = "@alice" -> <<64, 97, 108, 105, 99, 101>>
      [] u = "@bob"   -> <<64, 98, 111, 98>>
      [] u = "@carol" -> <<64, 99, 97, 114, 111, 108>>

RECURSIVE SeqGreater(_, _)
SeqGreater(a, b) ==
    IF a = <<>> THEN FALSE
    ELSE IF b = <<>> THEN TRUE
    ELSE IF Head(a) # Head(b) THEN Head(a) > Head(b)
    ELSE SeqGreater(Tail(a), Tail(b))

\* JavaScript a > b on two strings
StrGreater(a, b) == SeqGreater(CodeUnits(a), CodeUnits(b))

\* ----------------------------------------------------------------- state
VARIABLES
    live,            \* the managers that run in this universe
    callbacks,       \* WebRTCManager.callbacks: 0 = null, else the registered set
    currentUser,     \* WebRTCManager.currentUser
    pollingInterval, \* WebRTCManager.pollingInterval: 0 = null, else a timer id
    timers,          \* the interval timers that are alive (setInterval/clearInterval)
    connections,     \* WebRTCManager.connections: peer -> 0 (absent) or object id
    objs,            \* heap: one record per PeerConnection entry and its transport
    sessionKeys,     \* AESService.sessionKeys: peer -> NoKey or key bytes
    ticks,           \* poll ticks in progress (activations of the interval callback)
    relay,           \* signaling relay: inbox of each user
    out,             \* what the last step emitted: callbacks, envelopes, frames, results
    used,            \* inputs the environment has made so far: [remote, events]
    keyBufs,         \* the Uint8Array buffers AESService has allocated for keys
    auth,            \* useAuthStore: token, username, isAuthenticated of each device
    privateKey       \* PGPService.privateKey of each device is loaded (not null)

vars == <<live, callbacks, currentUser, pollingInterval, timers, connections,
          objs, sessionKeys, ticks, relay, out, used, keyBufs, auth, privateKey>>

Peers(m) == Users \ {m}
TickIds  == 1..MaxTicks
TimerIds == 1..MaxTimers

\* a poll tick: st is its position; batch the envelopes still to handle; peer,
\* pc, conn, existing (existingConn) the locals of the handler in progress; i,
\* via, det, arr the loop of processPendingCandidates (det: the array it
\* iterates is no longer the entry's pendingCandidates, arr is that array)
IdleTick == [st |-> "idle", batch |-> <<>>, peer |-> Null, pc |-> 0, conn |-> 0,
             existing |-> 0, i |-> 0, via |-> Null, det |-> FALSE, arr |-> <<>>]

\* new RTCPeerConnection plus the PeerConnection literal stored in the map
\* (connect: part_001 93-106, handleOffer: part_001 215-223)
NewEntry(p, role) ==
    [peer |-> p, role |-> role,
     \* the transport object pc
     closed |-> FALSE, local |-> FALSE, remote |-> FALSE,
     added |-> <<>>, addedNoRemote |-> FALSE, addedNoFlag |-> FALSE,
     \* the candidates whose addIceCandidate promise was rejected
     rejected |-> <<>>,
     \* the data channel of this transport
     dc |-> IF role = "initiator" THEN "connecting" ELSE "none",
     \* the fields of the PeerConnection entry
     dataChannel |-> 0, state |-> "connecting", pendingCandidates |-> <<>>,
     hasRemoteDescription |-> FALSE,
     \* position of the connect() activation that created the entry: at the
     \* await on createOffer, at the rejected relay request, returned ("done")
     \* or returned through its catch ("failed"); "none" for handleOffer's entries
     cpc |-> IF role = "initiator" THEN "offer" ELSE "none"]

\* useAuthStore after create, and after the set of logout: nobody is logged in
LoggedOut == [token |-> Null, username |-> Null, isAuthenticated |-> FALSE]

\* the state after construction of the managers in l; loaded: the devices on
\* which a login of this process has loaded the PGP private key
StartWith(l, loaded) ==
    /\ privateKey = [m \in Managers |-> m \in loaded]
    /\ live = l
    /\ callbacks = [m \in Managers |-> 0]
    /\ currentUser = [m \in Managers |-> Null]
    /\ pollingInterval = [m \in Managers |-> 0]
    /\ timers = [m \in Managers |-> {}]
    /\ connections = [m \in Managers |-> [p \in Users |-> 0]]
    /\ objs = [m \in Managers |-> <<>>]
    /\ sessionKeys = [m \in Managers |-> [p \in Users |-> NoKey]]
    /\ ticks = [m \in Managers |-> <<>>]
    /\ relay = [u \in Users |-> <<>>]
    /\ out = <<>>
    /\ used = [remote |-> 0, events |-> 0]
    /\ keyBufs = [m \in Managers |-> <<>>]
    /\ auth = [m \in Managers |-> LoggedOut]

\* the managers in l on devices whose user has logged in since the process
\* started (the private key stays loaded over a logout)
Start(l) == StartWith(l, Managers)

\* one manager, the other users are endpoints outside the model
Init == \E m \in Managers : Start({m})
InitAlice == Start({"@alice"})
InitBob == Start({"@bob"})
\* both managers, talking to each other through the relay
InitPair == Start(Managers)
\* both managers: @bob has logged in, the process of @alice has restored its
\* login from storage (authStore.initialize, which loads no private key)
InitRelaunch == StartWith(Managers, {"@bob"})

\* --------------------------------------------------------------- helpers
\* this.callbacks?.onStateChange / onError / onMessage
Callback(m, name, p, arg) ==
    IF callbacks[m] # 0 THEN <<[ev |-> name, peer |-> p, info |-> arg]>> ELSE <<>>

\* updateState that only fires the callback
UpdateStateUnrecorded(os, c, st) == os

\* updateState that writes the state into every session of the manager
UpdateStateAll(os, c, st) == [n \in 1..Len(os) |-> [os[n] EXCEPT !.state = st]]

\* updateState: the entry now stored for peerId gets the state
UpdateStateObjs(os, c, st) ==
    IF c # 0 THEN [os EXCEPT ![c].state = st] ELSE os


\* ------------------------------------------------- text encodings (pure)
\* JSON.stringify
JsonStringify(v) == <<"json", v>>
\* Buffer.from(bytes).toString('base64')
Base64Encode(v) == <<"b64", v>>
\* Buffer.from(text, 'base64') and back to bytes/utf8: lenient, text that is
\* no base64 encoding decodes to junk
Base64Decode(x) == IF x[1] = "b64" THEN x[2] ELSE <<"junk">>
\* JSON.parse: [ok, val]; ok = FALSE is the SyntaxError
JsonParse(x) ==
    IF x[1] = "json" THEN [ok |-> TRUE, val |-> x[2]] ELSE [ok |-> FALSE, val |-> Null]

\* PGPService.encrypt / decrypt (mock), the private key loaded
PgpEncrypt(data) == Base64Encode(data)
PgpDecrypt(x) == Base64Decode(x)

\* the payload decoding at the head of handleSignal, the private key loaded
DecodePayload(x) ==
    IF JsonParse(PgpDecrypt(x)).ok THEN JsonParse(PgpDecrypt(x)) ELSE JsonParse(x)

\* the payload decoding at the head of handleSignal: without private key
\* decrypt throws and the payload is parsed as it came
DecodeSignal(loaded, x) == IF loaded THEN DecodePayload(x) ELSE JsonParse(x)

\* --------------------------------------------------- UTF-8 (Buffer, pure)
IsHighSurrogate(u) == u >= 55296 /\ u <= 56319
IsLowSurrogate(u)  == u >= 56320 /\ u <= 57343

\* the UTF-8 bytes of one code point
CodePointBytes(cp) ==
    IF cp < 128 THEN <<cp>>
    ELSE IF cp < 2048 THEN <<192 + (cp \div 64), 128 + (cp % 64)>>
    ELSE IF cp < 65536
    THEN <<224 + (cp \div 4096), 128 + ((cp \div 64) % 64), 128 + (cp % 64)>>
    ELSE <<240 + (cp \div 262144), 128 + ((cp \div 4096) % 64),
           128 + ((cp \div 64) % 64), 128 + (cp % 64)>>

\* Buffer.from(text, 'utf8'): a surrogate pair is one code point, a surrogate
\* without its partner is written as U+FFFD (EF BF BD)
RECURSIVE Utf8Encode(_)
Utf8Encode(s) ==
    IF s = <<>> THEN <<>>
    ELSE IF IsHighSurrogate(s[1]) /\ Len(s) >= 2 /\ IsLowSurrogate(s[2])
    THEN CodePointBytes(65536 + (s[1] - 55296) * 1024 + (s[2] - 56320))
            \o Utf8Encode(SubSeq(s, 3, Len(s)))
    ELSE IF IsHighSurrogate(s[1]) \/ IsLowSurrogate(s[1])
    THEN <<239, 191, 189>> \o Utf8Encode(Tail(s))
    ELSE CodePointBytes(s[1]) \o Utf8Encode(Tail(s))

\* the code units of the code point cp
CodeUnitsOf(cp) ==
    IF cp < 65536 THEN <<cp>>
    ELSE <<55296 + ((cp - 65536) \div 1024), 56320 + ((cp - 65536) % 1024)>>

\* buffer.toString('utf8'): bytes that begin no sequence decode to U+FFFD
RECURSIVE Utf8Decode(_)
Utf8Decode(b) ==
    IF b = <<>> THEN <<>>
    ELSE IF b[1] < 128 THEN <<b[1]>> \o Utf8Decode(Tail(b))
    ELSE IF b[1] >= 240 /\ Len(b) >= 4
    THEN CodeUnitsOf((b[1] - 240) * 262144 + (b[2] - 128) * 4096
                      + (b[3] - 128) * 64 + (b[4] - 128))
            \o Utf8Decode(SubSeq(b, 5, Len(b)))
    ELSE IF b[1] >= 224 /\ b[1] < 240 /\ Len(b) >= 3
    THEN <<(b[1] - 224) * 4096 + (b[2] - 128) * 64 + (b[3] - 128)>>
            \o Utf8Decode(SubSeq(b, 4, Len(b)))
    ELSE IF b[1] >= 192 /\ b[1] < 224 /\ Len(b) >= 2
    THEN <<(b[1] - 192) * 64 + (b[2] - 128)>> \o Utf8Decode(SubSeq(b, 3, Len(b)))
    ELSE <<65533>> \o Utf8Decode(Tail(b))

\* ------------------------------------------------------- AES key store
\* a key buffer after fill(0)
Zeros == <<"zeros">>

\* sessionKeys.set(peerId, {key, ...}) with a new Uint8Array: the buffer the
\* map held for peerId is let go as it is
StoreKey(bufs, p, bytes) ==
    Append([i \in 1..Len(bufs) |->
               IF bufs[i].peer = p THEN [bufs[i] EXCEPT !.held = FALSE] ELSE bufs[i]],
           [peer |-> p, bytes |-> bytes, held |-> TRUE, ivs |-> <<>>])

\* destroySessionKey that removes the entry without fill(0)
DropKeyBuf(bufs, p) ==
    [i \in 1..Len(bufs) |->
        IF bufs[i].peer = p /\ bufs[i].held
        THEN [bufs[i] EXCEPT !.held = FALSE] ELSE bufs[i]]

\* destroySessionKey on the buffers: entry.key.fill(0), then the delete
DestroyKeyBuf(bufs, p) ==
    [i \in 1..Len(bufs) |->
        IF bufs[i].peer = p /\ bufs[i].held
        THEN [bufs[i] EXCEPT !.bytes = Zeros, !.held = FALSE] ELSE bufs[i]]

\* destroyAllKeys on the buffers
DestroyAllBufs(bufs) ==
    [i \in 1..Len(bufs) |->
        IF bufs[i].held
        THEN [bufs[i] EXCEPT !.bytes = Zeros, !.held = FALSE] ELSE bufs[i]]

\* the buffer the map holds for the peer, 0 when it holds none
HeldBuf(bufs, p) ==
    IF \E i \in 1..Len(bufs) : bufs[i].peer = p /\ bufs[i].held
    THEN CHOOSE i \in 1..Len(bufs) : bufs[i].peer = p /\ bufs[i].held
    ELSE 0

\* the iv of an encrypt call is added to those drawn under the key
NoteIv(bufs, p, iv) ==
    IF HeldBuf(bufs, p) = 0 THEN bufs
    ELSE [bufs EXCEPT ![HeldBuf(bufs, p)].ivs = Append(@, iv)]

\* another encrypt call under the key of the peer is recorded
NonceRoom(bufs, p) ==
    IF HeldBuf(bufs, p) = 0 THEN TRUE ELSE Len(bufs[HeldBuf(bufs, p)].ivs) < MaxNonces

\* getSessionKey: NoKey stands for null
GetSessionKey(keys, p) == keys[p]

\* exportKey: NoKey stands for null
ExportKeyOrNull(keys, p) ==
    IF GetSessionKey(keys, p) = NoKey THEN NoKey
    ELSE Base64Encode(GetSessionKey(keys, p))

\* exportKey(peerId) || ''
EmptyString == <<"">>
ExportKey(keys, p) == IF keys[p] = NoKey THEN EmptyString ELSE Base64Encode(keys[p])

\* setSessionKey: the decoded bytes become the key of the peer
SetSessionKey(keys, p, keyBase64) == [keys EXCEPT ![p] = Base64Decode(keyBase64)]

\* destroySessionKey that leaves the entry in the store
DestroyNothing(keys, p) == keys

\* destroySessionKey
DestroySessionKey(keys, p) == [keys EXCEPT ![p] = NoKey]

\* AESService.encrypt: [ok, val]; ok = FALSE is the thrown no-key Error
AesEncrypt(keys, p, plaintext, iv) ==
    IF keys[p] = NoKey THEN [ok |-> FALSE, val |-> Null]
    ELSE [ok |-> TRUE,
          val |-> [iv |-> Base64Encode(iv),
                   ciphertext |-> Base64Encode(Utf8Encode(plaintext)),
                   tag |-> Base64Encode("zero16")]]

\* AESService.decrypt: [ok, val]; ok = FALSE is the thrown no-key Error
AesDecrypt(keys, p, data) ==
    IF keys[p] = NoKey THEN [ok |-> FALSE, val |-> Null]
    ELSE [ok |-> TRUE, val |-> Utf8Decode(Base64Decode(data.ciphertext))]

\* ---------------------------------------------------------- poll timer
FreeTimer(ts) == CHOOSE t \in TimerIds \ ts : \A u \in TimerIds \ ts : t <= u

\* startPolling without the check of pollingInterval
StartPollingUnguarded(pi, ts) ==
    IF TimerIds \ ts = {} THEN [pi |-> pi, ts |-> ts]
    ELSE [pi |-> FreeTimer(ts), ts |-> ts \cup {FreeTimer(ts)}]

\* startPolling: [pi, ts] after the call
StartPolling(pi, ts) ==
    IF pi # 0 THEN [pi |-> pi, ts |-> ts]
    ELSE [pi |-> FreeTimer(ts), ts |-> ts \cup {FreeTimer(ts)}]

\* stopPolling that resets pollingInterval without clearInterval
StopPollingKeepsTimer(pi, ts) == [pi |-> 0, ts |-> ts]

\* stopPolling: [pi, ts] after the call
StopPollingOf(pi, ts) ==
    IF pi # 0 THEN [pi |-> 0, ts |-> ts \ {pi}] ELSE [pi |-> pi, ts |-> ts]

\* -------------------------------------------------------------- relay
\* api.sendSignal: the envelope reaches the inbox of to_user when the request
\* arrives; inboxes of users that run no manager here are not kept
Deliver(rl, from, to, type, payload, arrived) ==
    IF arrived /\ to \in live
    THEN [rl EXCEPT ![to] = Append(@, [from_user |-> from, type |-> type,
                                       encrypted_payload |-> payload])]
    ELSE rl

\* peer.pgp_public_key && !peer.pgp_public_key.includes('mock'), as the
\* directory reports the key of user u
UsablePgpKey(u) == u = "@alice"

\* sendSignal: the payload as it goes on the wire
WirePayload(payload, usePgp) == IF usePgp THEN PgpEncrypt(payload) ELSE payload

SignalEvent(to, type, payload) ==
    <<[ev |-> "sendSignal", peer |-> to, info |-> <<type, payload>>]>>

\* the application calls init before any other operation (ChatScreen useEffect)
Inited(m) == m \in live /\ callbacks[m] # 0

\* ------------------------------------------------------ manager: init
InitManager(m) ==
    /\ m \in live
    /\ (pollingInterval[m] = 0) => (TimerIds \ timers[m] # {})
    /\ callbacks' = [callbacks EXCEPT ![m] = 1]
    /\ currentUser' = [currentUser EXCEPT ![m] = m]
    /\ pollingInterval' = [pollingInterval EXCEPT ![m] = StartPolling(@, timers[m]).pi]
    /\ timers' = [timers EXCEPT ![m] = StartPolling(pollingInterval[m], @).ts]
    /\ out' = <<>>
    /\ UNCHANGED <<used, live, auth, privateKey, keyBufs, connections, objs, sessionKeys, ticks, relay>>

StopPolling(m) ==
    /\ Inited(m)
    /\ pollingInterval' = [pollingInterval EXCEPT ![m] = StopPollingOf(@, timers[m]).pi]
    /\ timers' = [timers EXCEPT ![m] = StopPollingOf(pollingInterval[m], @).ts]
    /\ out' = <<>>
    /\ UNCHANGED <<used, live, auth, privateKey, keyBufs, callbacks, currentUser, connections, objs, sessionKeys,
                   ticks, relay>>

\* ---------------------------------------------------- manager: connect
\* the catch block of connect
ConnectCatch(m, p, os) ==
    /\ objs' = [objs EXCEPT ![m] = UpdateStateObjs(os, connections[m][p], "failed")]
    /\ out' = Callback(m, "onError", p, "message")
               \o Callback(m, "onStateChange", p, "failed")

\* connect up to the await on createOffer, the constructor or
\* createDataChannel throwing
ConnectThrows(m, p) ==
    /\ Inited(m) /\ p \in Peers(m)
    /\ objs' = [objs EXCEPT ![m] =
          UpdateStateObjs(UpdateStateObjs(@, connections[m][p], "connecting"),
                          connections[m][p], "failed")]
    /\ out' = Callback(m, "onStateChange", p, "connecting")
               \o Callback(m, "onError", p, "message")
               \o Callback(m, "onStateChange", p, "failed")
    /\ UNCHANGED <<used, live, auth, privateKey, keyBufs, callbacks, currentUser, pollingInterval, timers,
                   connections, sessionKeys, ticks, relay>>

\* connect up to the await on createOffer
Connect(m, p) ==
    /\ Inited(m) /\ p \in Peers(m)
    /\ Len(objs[m]) < MaxPcs
    /\ LET n  == Len(objs[m]) + 1
           os == UpdateStateObjs(objs[m], connections[m][p], "connecting")
           k  == FreshKey(m, Len(keyBufs[m]) + 1)
       IN /\ objs' = [objs EXCEPT ![m] =
                Append(os, [NewEntry(p, "initiator") EXCEPT !.dataChannel = n])]
          /\ connections' = [connections EXCEPT ![m][p] = n]
          /\ sessionKeys' = [sessionKeys EXCEPT ![m][p] = k]
          /\ keyBufs' = [keyBufs EXCEPT ![m] = StoreKey(@, p, k)]
    /\ out' = Callback(m, "onStateChange", p, "connecting")
    /\ UNCHANGED <<used, live, auth, privateKey, callbacks, currentUser, pollingInterval, timers, ticks, relay>>

\* connect resumed after createOffer and setLocalDescription: the offer goes out
ConnectOffer(m, n) ==
    /\ m \in live /\ n \in 1..Len(objs[m])
    /\ objs[m][n].cpc = "offer"
    /\ ~objs[m][n].closed
    /\ \E usePgp \in BOOLEAN, arrived \in BOOLEAN, ok \in BOOLEAN :
         LET p    == objs[m][n].peer
             wire == WirePayload(JsonStringify([sdp |-> m, type |-> "offer",
                                    aesKey |-> ExportKey(sessionKeys[m], p)]), usePgp)
         IN /\ ok => arrived
            /\ objs' = [objs EXCEPT ![m][n].local = TRUE,
                                    ![m][n].cpc = IF ok THEN "done" ELSE "sendfail"]
            /\ relay' = Deliver(relay, m, p, "offer", wire, arrived)
            /\ out' = SignalEvent(p, "offer", wire)
    /\ UNCHANGED <<used, live, auth, privateKey, keyBufs, callbacks, currentUser, pollingInterval, timers,
                   connections, sessionKeys, ticks>>

\* connect resumed with createOffer or setLocalDescription rejected
ConnectOfferFails(m, n) ==
    /\ m \in live /\ n \in 1..Len(objs[m])
    /\ objs[m][n].cpc = "offer"
    /\ ConnectCatch(m, objs[m][n].peer, [objs[m] EXCEPT ![n].cpc = "failed"])
    /\ UNCHANGED <<used, live, auth, privateKey, keyBufs, callbacks, currentUser, pollingInterval, timers,
                   connections, sessionKeys, ticks, relay>>

\* connect resumed with the relay request of the offer rejected
ConnectSendFails(m, n) ==
    /\ m \in live /\ n \in 1..Len(objs[m])
    /\ objs[m][n].cpc = "sendfail"
    /\ ConnectCatch(m, objs[m][n].peer, [objs[m] EXCEPT ![n].cpc = "failed"])
    /\ UNCHANGED <<used, live, auth, privateKey, keyBufs, callbacks, currentUser, pollingInterval, timers,
                   connections, sessionKeys, ticks, relay>>


\* ------------------------------------------------- manager: disconnect
\* RTCDataChannel.close()
CloseChannel(os, d) ==
    IF d = 0 THEN os
    ELSE [os EXCEPT ![d].dc = IF @ \in {"connecting", "open"} THEN "closing" ELSE @]

\* RTCPeerConnection.close(): the transport and its data channel
ClosePc(os, c) == CloseChannel([os EXCEPT ![c].closed = TRUE], c)

Disconnect(m, p) ==
    /\ Inited(m) /\ p \in Peers(m)
    /\ LET c == connections[m][p]
       IN IF c # 0
          THEN /\ objs' = [objs EXCEPT ![m] =
                     ClosePc(CloseChannel(@, objs[m][c].dataChannel), c)]
               /\ sessionKeys' = [sessionKeys EXCEPT ![m] = DestroySessionKey(@, p)]
               /\ keyBufs' = [keyBufs EXCEPT ![m] = DestroyKeyBuf(@, p)]
               /\ connections' = [connections EXCEPT ![m][p] = 0]
          ELSE UNCHANGED <<objs, sessionKeys, keyBufs, connections>>
    /\ pollingInterval' = [pollingInterval EXCEPT ![m] = StopPollingOf(@, timers[m]).pi]
    /\ timers' = [timers EXCEPT ![m] = StopPollingOf(pollingInterval[m], @).ts]
    /\ out' = <<>>
    /\ UNCHANGED <<used, live, auth, privateKey, callbacks, currentUser, ticks, relay>>

\* ------------------------------------------ manager: getConnectionStatus
GetConnectionStatus(m, p) ==
    IF connections[m][p] # 0 THEN objs[m][connections[m][p]].state ELSE "idle"

\* --------------------------------------------------- manager: sendMessage
\* a message string as a frame on the channel
PlainText(t) == <<"text", t>>

\* the check of sendMessage without the readyState
ChannelPresent(m, p) ==
    /\ connections[m][p] # 0
    /\ objs[m][connections[m][p]].dataChannel # 0

\* conn?.dataChannel && conn.dataChannel.readyState === 'open'
ChannelReady(m, p) ==
    /\ connections[m][p] # 0
    /\ objs[m][connections[m][p]].dataChannel # 0
    /\ objs[m][objs[m][connections[m][p]].dataChannel].dc = "open"

\* the frame without the fallback of the catch block
FrameOfNoFallback(keys, p, text, iv) == JsonStringify(AesEncrypt(keys, p, text, iv).val)

\* what goes on the channel: the encrypted envelope, or the text when encrypt throws
FrameOf(keys, p, text, iv) ==
    IF AesEncrypt(keys, p, text, iv).ok
    THEN JsonStringify(AesEncrypt(keys, p, text, iv).val)
    ELSE PlainText(text)

ReturnEvent(name, p, val) == <<[ev |-> name, peer |-> p, info |-> <<"returns", val>>]>>

SendMessage(m, p, text) ==
    /\ Inited(m) /\ p \in Peers(m)
    /\ IF ~ChannelReady(m, p)
       THEN /\ out' = ReturnEvent("sendMessage", p, FALSE)
            /\ UNCHANGED <<objs, keyBufs>>
       ELSE \E iv \in IVs :
               /\ NonceRoom(keyBufs[m], p)
               /\ out' = <<[ev |-> "send", peer |-> p,
                            info |-> FrameOf(sessionKeys[m], p, text, iv)]>>
                          \o ReturnEvent("sendMessage", p, TRUE)
               /\ keyBufs' = [keyBufs EXCEPT ![m] = NoteIv(@, p, iv)]
               /\ UNCHANGED objs
    /\ UNCHANGED <<used, live, auth, privateKey, callbacks, currentUser, pollingInterval, timers,
                   connections, sessionKeys, ticks, relay>>

\* ------------------------------------------- transport and channel events
\* handleConnectionState without the case of 'closed'
HandleConnectionStateOpenOnly(state) ==
    CASE state = "connected" -> "connected"
      [] state = "disconnected" -> "disconnected"
      [] state = "failed" -> "failed"
      [] OTHER -> Null

\* handleConnectionState: the session state a transport state maps to, Null = none
HandleConnectionState(state) ==
    CASE state = "connected" -> "connected"
      [] state \in {"disconnected", "closed"} -> "disconnected"
      [] state = "failed" -> "failed"
      [] OTHER -> Null

\* updateState as a whole: the entry stored for peerId and the callback
UpdateState(m, p, st) ==
    /\ objs' = [objs EXCEPT ![m] = UpdateStateObjs(@, connections[m][p], st)]
    /\ out' = Callback(m, "onStateChange", p, st)

\* pc.onconnectionstatechange of transport n
ConnectionStateChange(m, n, state) ==
    /\ used.events < MaxEvents
    /\ used' = [used EXCEPT !.events = @ + 1]
    /\ m \in live /\ n \in 1..Len(objs[m])
    /\ ~objs[m][n].closed
    /\ IF HandleConnectionState(state) = Null
       THEN UNCHANGED objs /\ out' = <<>>
       ELSE UpdateState(m, objs[m][n].peer, HandleConnectionState(state))
    /\ UNCHANGED <<live, auth, privateKey, keyBufs, callbacks, currentUser, pollingInterval, timers,
                   connections, sessionKeys, ticks, relay>>

\* pc.oniceconnectionstatechange of transport n with iceConnectionState 'failed'
IceConnectionFailed(m, n) ==
    /\ used.events < MaxEvents
    /\ used' = [used EXCEPT !.events = @ + 1]
    /\ m \in live /\ n \in 1..Len(objs[m])
    /\ ~objs[m][n].closed
    /\ UpdateState(m, objs[m][n].peer, "failed")
    /\ UNCHANGED <<live, auth, privateKey, keyBufs, callbacks, currentUser, pollingInterval, timers,
                   connections, sessionKeys, ticks, relay>>

\* pc.ondatachannel of responder transport n
OnDataChannel(m, n) ==
    /\ used.events < MaxEvents
    /\ used' = [used EXCEPT !.events = @ + 1]
    /\ m \in live /\ n \in 1..Len(objs[m])
    /\ objs[m][n].role = "responder" /\ objs[m][n].dc = "none"
    /\ objs[m][n].remote /\ ~objs[m][n].closed
    /\ LET c == connections[m][objs[m][n].peer]
       IN objs' = [objs EXCEPT ![m] =
             IF c # 0
             THEN [[@ EXCEPT ![n].dc = "connecting"] EXCEPT ![c].dataChannel = n]
             ELSE [@ EXCEPT ![n].dc = "orphan"]]
    /\ out' = <<>>
    /\ UNCHANGED <<live, auth, privateKey, keyBufs, callbacks, currentUser, pollingInterval, timers,
                   connections, sessionKeys, ticks, relay>>

\* channel.onopen of the channel of transport n
ChannelOpen(m, n) ==
    /\ used.events < MaxEvents
    /\ used' = [used EXCEPT !.events = @ + 1]
    /\ m \in live /\ n \in 1..Len(objs[m])
    /\ objs[m][n].dc = "connecting" /\ ~objs[m][n].closed
    /\ objs' = [objs EXCEPT ![m] =
          UpdateStateObjs([@ EXCEPT ![n].dc = "open"],
                          connections[m][objs[m][n].peer], "connected")]
    /\ out' = Callback(m, "onStateChange", objs[m][n].peer, "connected")
    /\ UNCHANGED <<live, auth, privateKey, keyBufs, callbacks, currentUser, pollingInterval, timers,
                   connections, sessionKeys, ticks, relay>>

\* channel.onclose of the channel of transport n
ChannelClose(m, n) ==
    /\ used.events < MaxEvents
    /\ used' = [used EXCEPT !.events = @ + 1]
    /\ m \in live /\ n \in 1..Len(objs[m])
    /\ objs[m][n].dc \in {"connecting", "open", "closing"}
    /\ objs' = [objs EXCEPT ![m] =
          UpdateStateObjs([@ EXCEPT ![n].dc = "closed"],
                          connections[m][objs[m][n].peer], "disconnected")]
    /\ out' = Callback(m, "onStateChange", objs[m][n].peer, "disconnected")
    /\ UNCHANGED <<live, auth, privateKey, keyBufs, callbacks, currentUser, pollingInterval, timers,
                   connections, sessionKeys, ticks, relay>>

\* channel.onerror of the channel of transport n
ChannelError(m, n) ==
    /\ used.events < MaxEvents
    /\ used' = [used EXCEPT !.events = @ + 1]
    /\ m \in live /\ n \in 1..Len(objs[m])
    /\ objs[m][n].dc \in {"connecting", "open"}
    /\ UpdateState(m, objs[m][n].peer, "failed")
    /\ UNCHANGED <<live, auth, privateKey, keyBufs, callbacks, currentUser, pollingInterval, timers,
                   connections, sessionKeys, ticks, relay>>

\* the frames a peer puts on the channel
InboundFrames ==
    {<<"text", t>> : t \in Texts} \cup
    {JsonStringify([iv |-> Base64Encode(iv), ciphertext |-> Base64Encode(Utf8Encode(t)),
                    tag |-> Base64Encode(tag)]) : t \in Texts, iv \in IVs, tag \in Tags}

\* the message channel.onmessage hands to onMessage: the decrypted text, or the
\* data itself when it is no JSON or decrypt throws
MessageOf(keys, p, data) ==
    IF JsonParse(data).ok /\ AesDecrypt(keys, p, JsonParse(data).val).ok
    THEN <<"text", AesDecrypt(keys, p, JsonParse(data).val).val>>
    ELSE data

\* channel.onmessage of the channel of transport n with event.data = data
ChannelMessageOf(m, n, data) ==
    /\ used.events < MaxEvents
    /\ used' = [used EXCEPT !.events = @ + 1]
    /\ m \in live /\ n \in 1..Len(objs[m])
    /\ objs[m][n].dc = "open"
    /\ out' = Callback(m, "onMessage", objs[m][n].peer,
                       MessageOf(sessionKeys[m], objs[m][n].peer, data))
    /\ UNCHANGED <<live, auth, privateKey, keyBufs, callbacks, currentUser, pollingInterval, timers,
                   connections, objs, sessionKeys, ticks, relay>>

ChannelMessage(m, n) == \E data \in InboundFrames : ChannelMessageOf(m, n, data)

\* the frame the other manager has just put on the channel arrives at m:
\* channel.onmessage of the channel of transport n with that frame
ReceiveFrame(m, n) ==
    /\ m \in live /\ n \in 1..Len(objs[m])
    /\ objs[m][n].dc = "open"
    /\ objs[m][n].peer \in live
    /\ out # <<>>
    /\ out[1].ev = "send" /\ out[1].peer = m
    /\ out' = Callback(m, "onMessage", objs[m][n].peer,
                       MessageOf(sessionKeys[m], objs[m][n].peer, out[1].info))
    /\ UNCHANGED <<used, live, auth, privateKey, keyBufs, callbacks, currentUser,
                   pollingInterval, timers, connections, objs, sessionKeys, ticks, relay>>

\* pc.onicecandidate of transport n with a candidate: it goes to the peer
\* (peerKnown = FALSE: the responder's getPeerInfo gave null)
OnIceCandidate(m, n) ==
    /\ used.events < MaxEvents
    /\ used' = [used EXCEPT !.events = @ + 1]
    /\ m \in live /\ n \in 1..Len(objs[m])
    /\ objs[m][n].local /\ ~objs[m][n].closed
    /\ \E cand \in Candidates, usePgp \in BOOLEAN, arrived \in BOOLEAN,
          peerKnown \in BOOLEAN :
         LET p    == objs[m][n].peer
             wire == WirePayload(JsonStringify(cand), usePgp)
         IN /\ (objs[m][n].role = "initiator") => peerKnown
            /\ relay' = Deliver(relay, m, p, "ice", wire, arrived /\ peerKnown)
            /\ out' = IF peerKnown THEN SignalEvent(p, "ice", wire) ELSE <<>>
    /\ UNCHANGED <<live, auth, privateKey, keyBufs, callbacks, currentUser, pollingInterval, timers,
                   connections, objs, sessionKeys, ticks>>

\* ------------------------------------------------------------ poll loop
\* the tick after the handler of Head(batch) has returned; st = "idle" ends it
Rest(tk) ==
    IF Len(tk.batch) <= 1 THEN IdleTick
    ELSE [IdleTick EXCEPT !.st = "run", !.batch = Tail(tk.batch)]

\* the ticks in progress: a tick that has ended is dropped
Compact(tks) == SelectSeq(tks, LAMBDA tk : tk.st # "idle")

SetTick(tks, t, tk) == Compact([tks EXCEPT ![t] = tk])

IsTick(m, t) == m \in live /\ t \in 1..Len(ticks[m])

\* an interval timer fires and pollSignals resolves with the envelopes of the
\* inbox, which the relay removes; the tick then handles them one by one
PollTick(m) ==
    /\ m \in live
    /\ timers[m] # {}
    /\ Len(ticks[m]) < MaxTicks
    /\ ticks' = [ticks EXCEPT ![m] =
          Compact(Append(@, [IdleTick EXCEPT
                                !.st = IF relay[m] = <<>> THEN "idle" ELSE "run",
                                !.batch = relay[m]]))]
    /\ relay' = [relay EXCEPT ![m] = <<>>]
    /\ out' = <<>>
    /\ UNCHANGED <<used, live, auth, privateKey, keyBufs, callbacks, currentUser, pollingInterval, timers,
                   connections, objs, sessionKeys>>

\* a catch of the interval callback that gives up polling
PollFailsStops(m) ==
    /\ m \in live
    /\ timers[m] # {}
    /\ pollingInterval' = [pollingInterval EXCEPT ![m] = 0]
    /\ timers' = [timers EXCEPT ![m] = {}]
    /\ out' = <<>>
    /\ UNCHANGED <<used, live, auth, privateKey, keyBufs, callbacks, currentUser,
                   connections, objs, sessionKeys, ticks, relay>>

\* an interval timer fires and pollSignals rejects: the catch of the callback
PollFails(m) ==
    /\ m \in live
    /\ timers[m] # {}
    /\ out' = <<>>
    /\ UNCHANGED <<used, live, auth, privateKey, keyBufs, callbacks, currentUser, pollingInterval, timers,
                   connections, objs, sessionKeys, ticks, relay>>

\* ------------------------------------------------------- handleSignal
Signal(m, t)  == Head(ticks[m][t].batch)
Payload(m, t) == DecodeSignal(privateKey[m], Signal(m, t).encrypted_payload)
Running(m, t, type) ==
    /\ IsTick(m, t) /\ ticks[m][t].st = "run"
    /\ Signal(m, t).type = type
    /\ Payload(m, t).ok

\* an outer catch of handleSignal that reports the error to the application
HandleUndecodableReported(m, t) ==
    /\ IsTick(m, t) /\ ticks[m][t].st = "run"
    /\ ~DecodePayload(Head(ticks[m][t].batch).encrypted_payload).ok
    /\ ticks' = [ticks EXCEPT ![m] = SetTick(@, t, Rest(@[t]))]
    /\ out' = Callback(m, "onError", Head(ticks[m][t].batch).from_user, "message")
    /\ UNCHANGED <<used, live, auth, privateKey, keyBufs, callbacks, currentUser, pollingInterval,
                   timers, connections, objs, sessionKeys, relay>>

\* the payload is no JSON, encrypted or not: the outer catch of handleSignal
HandleUndecodable(m, t) ==
    /\ IsTick(m, t) /\ ticks[m][t].st = "run"
    /\ ~Payload(m, t).ok
    /\ ticks' = [ticks EXCEPT ![m] = SetTick(@, t, Rest(@[t]))]
    /\ out' = <<>>
    /\ UNCHANGED <<used, live, auth, privateKey, keyBufs, callbacks, currentUser, pollingInterval, timers,
                   connections, objs, sessionKeys, relay>>

\* --------------------------------------------- processPendingCandidates
\* pc.addIceCandidate(candidate) on the transport of entry c
AddIceCandidate(os, c, cand) ==
    [os EXCEPT ![c].added = Append(@, cand),
               ![c].addedNoRemote = @ \/ ~os[c].remote,
               ![c].addedNoFlag = @ \/ ~os[c].hasRemoteDescription]

\* the tick when processPendingCandidates has returned to its caller
DrainDone(tk, via) ==
    IF via = "offer"
    THEN [tk EXCEPT !.st = "respond", !.conn = 0, !.i = 0, !.via = Null,
                    !.det = FALSE, !.arr = <<>>]
    ELSE Rest(tk)

\* conn.pendingCandidates = [] of tick t: the loops of other ticks over the
\* replaced array keep iterating that array
Detach(tks, t, c, old) ==
    [u \in 1..Len(tks) |->
        IF u # t /\ tks[u].st = "drain" /\ tks[u].conn = c /\ ~tks[u].det
        THEN [tks[u] EXCEPT !.det = TRUE, !.arr = old] ELSE tks[u]]

\* processPendingCandidates(peerId) up to its first await; os is the heap and c
\* the entry stored for the peer when it is called
ProcessPendingCandidates(m, t, os, c, via) ==
    IF c = 0
    THEN /\ objs' = [objs EXCEPT ![m] = os]
         /\ ticks' = [ticks EXCEPT ![m] = SetTick(@, t, DrainDone(@[t], via))]
    ELSE IF os[c].pendingCandidates = <<>>
    THEN /\ objs' = [objs EXCEPT ![m] = os]
         /\ ticks' = [ticks EXCEPT ![m] =
               SetTick(Detach(@, t, c, <<>>), t, DrainDone(@[t], via))]
    ELSE /\ objs' = [objs EXCEPT ![m] =
               AddIceCandidate(os, c, os[c].pendingCandidates[1])]
         /\ ticks' = [ticks EXCEPT ![m][t] =
               [@ EXCEPT !.st = "drain", !.conn = c, !.i = 1, !.via = via,
                         !.det = FALSE, !.arr = <<>>]]

\* the loop resumed after an addIceCandidate: next candidate, or the reset
DrainStep(m, t) ==
    /\ IsTick(m, t) /\ ticks[m][t].st = "drain"
    /\ LET tk  == ticks[m][t]
           c   == tk.conn
           arr == IF tk.det THEN tk.arr ELSE objs[m][c].pendingCandidates
       IN IF tk.i < Len(arr)
          THEN /\ objs' = [objs EXCEPT ![m] = AddIceCandidate(@, c, arr[tk.i + 1])]
               /\ ticks' = [ticks EXCEPT ![m][t].i = tk.i + 1]
          ELSE /\ objs' = [objs EXCEPT ![m][c].pendingCandidates = <<>>]
               /\ ticks' = [ticks EXCEPT ![m] =
                     SetTick(Detach(@, t, c, objs[m][c].pendingCandidates), t,
                             DrainDone(tk, tk.via))]
    /\ out' = <<>>
    /\ UNCHANGED <<used, live, auth, privateKey, keyBufs, callbacks, currentUser, pollingInterval, timers,
                   connections, sessionKeys, relay>>

\* the loop resumed with the addIceCandidate of candidate i rejected, the
\* loop given up at the first failure
DrainStepAborts(m, t) ==
    /\ IsTick(m, t) /\ ticks[m][t].st = "drain"
    /\ LET tk  == ticks[m][t]
           c   == tk.conn
           arr == IF tk.det THEN tk.arr ELSE objs[m][c].pendingCandidates
       IN /\ objs' = [objs EXCEPT ![m][c].rejected = Append(@, arr[tk.i])]
          /\ ticks' = [ticks EXCEPT ![m] = SetTick(@, t, DrainDone(tk, tk.via))]
    /\ out' = <<>>
    /\ UNCHANGED <<used, live, auth, privateKey, keyBufs, callbacks, currentUser, pollingInterval, timers,
                   connections, sessionKeys, relay>>

\* the loop resumed with the addIceCandidate of candidate i rejected: the catch
\* inside the loop logs, then the next candidate, or the reset
DrainStepRejected(m, t) ==
    /\ IsTick(m, t) /\ ticks[m][t].st = "drain"
    /\ LET tk  == ticks[m][t]
           c   == tk.conn
           arr == IF tk.det THEN tk.arr ELSE objs[m][c].pendingCandidates
           os  == [objs[m] EXCEPT ![c].rejected = Append(@, arr[tk.i])]
       IN IF tk.i < Len(arr)
          THEN /\ objs' = [objs EXCEPT ![m] = AddIceCandidate(os, c, arr[tk.i + 1])]
               /\ ticks' = [ticks EXCEPT ![m][t].i = tk.i + 1]
          ELSE /\ objs' = [objs EXCEPT ![m] = [os EXCEPT ![c].pendingCandidates = <<>>]]
               /\ ticks' = [ticks EXCEPT ![m] =
                     SetTick(Detach(@, t, c, objs[m][c].pendingCandidates), t,
                             DrainDone(tk, tk.via))]
    /\ out' = <<>>
    /\ UNCHANGED <<used, live, auth, privateKey, keyBufs, callbacks, currentUser, pollingInterval, timers,
                   connections, sessionKeys, relay>>


\* --------------------------------------------------------- handleOffer
\* the collision rule with the comparison turned round
WeWinLower(m, p) ==
    /\ connections[m][p] # 0
    /\ currentUser[m] # Null /\ StrGreater(p, currentUser[m])

\* the collision rule keeps our own offer
WeWin(m, p) ==
    /\ connections[m][p] # 0
    /\ currentUser[m] # Null /\ StrGreater(currentUser[m], p)

\* handleOffer returns at the collision check
HandleOfferIgnored(m, t) ==
    /\ Running(m, t, "offer")
    /\ WeWin(m, Signal(m, t).from_user)
    /\ ticks' = [ticks EXCEPT ![m] = SetTick(@, t, Rest(@[t]))]
    /\ out' = <<>>
    /\ UNCHANGED <<used, live, auth, privateKey, keyBufs, callbacks, currentUser, pollingInterval, timers,
                   connections, objs, sessionKeys, relay>>

\* the heap after the collision branch that closes our own transport
OfferCollision(m, p) ==
    IF connections[m][p] # 0 THEN ClosePc(objs[m], connections[m][p]) ELSE objs[m]

\* if (payload.aesKey) setSessionKey(peerId, payload.aesKey)
OfferKey(keys, p, payload) ==
    IF payload.aesKey # EmptyString THEN SetSessionKey(keys, p, payload.aesKey) ELSE keys

\* the buffers after that setSessionKey
OfferKeyBuf(bufs, p, payload) ==
    IF payload.aesKey # EmptyString
    THEN StoreKey(bufs, p, Base64Decode(payload.aesKey)) ELSE bufs

\* handleOffer up to the await on setRemoteDescription
HandleOffer(m, t) ==
    /\ Running(m, t, "offer")
    /\ ~WeWin(m, Signal(m, t).from_user)
    /\ Len(objs[m]) < MaxPcs
    /\ LET p == Signal(m, t).from_user
           n == Len(objs[m]) + 1
       IN /\ objs' = [objs EXCEPT ![m] =
                Append(OfferCollision(m, p), NewEntry(p, "responder"))]
          /\ connections' = [connections EXCEPT ![m][p] = n]
          /\ sessionKeys' = [sessionKeys EXCEPT ![m] = OfferKey(@, p, Payload(m, t).val)]
          /\ keyBufs' = [keyBufs EXCEPT ![m] = OfferKeyBuf(@, p, Payload(m, t).val)]
          /\ ticks' = [ticks EXCEPT ![m][t] =
                [@ EXCEPT !.st = "offer", !.peer = p, !.pc = n,
                          !.existing = connections[m][p]]]
          /\ out' = Callback(m, "onStateChange", p, "connecting")
    /\ UNCHANGED <<used, live, auth, privateKey, callbacks, currentUser, pollingInterval, timers, relay>>

\* handleOffer with the RTCPeerConnection constructor throwing
HandleOfferThrows(m, t) ==
    /\ Running(m, t, "offer")
    /\ ~WeWin(m, Signal(m, t).from_user)
    /\ LET p == Signal(m, t).from_user
       IN /\ objs' = [objs EXCEPT ![m] = OfferCollision(m, p)]
          /\ connections' = [connections EXCEPT ![m][p] = 0]
          /\ sessionKeys' = [sessionKeys EXCEPT ![m] = OfferKey(@, p, Payload(m, t).val)]
          /\ keyBufs' = [keyBufs EXCEPT ![m] = OfferKeyBuf(@, p, Payload(m, t).val)]
          /\ ticks' = [ticks EXCEPT ![m] = SetTick(@, t, Rest(@[t]))]
          /\ out' = Callback(m, "onStateChange", p, "connecting")
    /\ UNCHANGED <<used, live, auth, privateKey, callbacks, currentUser, pollingInterval, timers, relay>>

\* handleOffer resumed after setRemoteDescription: flag, then the queue
HandleOfferApplied(m, t) ==
    /\ IsTick(m, t) /\ ticks[m][t].st = "offer"
    /\ ~objs[m][ticks[m][t].pc].closed
    /\ LET p  == ticks[m][t].peer
           c  == connections[m][p]
           os == [objs[m] EXCEPT ![ticks[m][t].pc].remote = TRUE]
       IN ProcessPendingCandidates(m, t,
             IF c # 0 THEN [os EXCEPT ![c].hasRemoteDescription = TRUE] ELSE os,
             c, "offer")
    /\ out' = <<>>
    /\ UNCHANGED <<used, live, auth, privateKey, keyBufs, callbacks, currentUser, pollingInterval, timers,
                   connections, sessionKeys, relay>>

\* handleOffer resumed with setRemoteDescription rejected: thrown to handleSignal
HandleOfferRejected(m, t) ==
    /\ IsTick(m, t) /\ ticks[m][t].st = "offer"
    /\ ticks' = [ticks EXCEPT ![m] = SetTick(@, t, Rest(@[t]))]
    /\ out' = <<>>
    /\ UNCHANGED <<used, live, auth, privateKey, keyBufs, callbacks, currentUser, pollingInterval, timers,
                   connections, objs, sessionKeys, relay>>

\* an answer payload that attaches the session key again
AnswerPayloadWithKey(m, p) ==
    JsonStringify([sdp |-> m, type |-> "answer", aesKey |-> ExportKey(sessionKeys[m], p)])

\* JSON.stringify({sdp: answer.sdp, type: answer.type})
AnswerPayload(m, p) == JsonStringify([sdp |-> m, type |-> "answer"])

\* handleOffer resumed after createAnswer, setLocalDescription and getPeerInfo:
\* the answer goes out (peerKnown = FALSE: getPeerInfo gave null)
HandleOfferAnswerWith(m, t, usePgp, arrived, peerKnown) ==
    /\ IsTick(m, t) /\ ticks[m][t].st = "respond"
    /\ ~objs[m][ticks[m][t].pc].closed
    /\ LET p    == ticks[m][t].peer
           wire == WirePayload(AnswerPayload(m, p), usePgp)
       IN /\ objs' = [objs EXCEPT ![m][ticks[m][t].pc].local = TRUE]
          /\ relay' = Deliver(relay, m, p, "answer", wire, arrived /\ peerKnown)
          /\ out' = IF peerKnown THEN SignalEvent(p, "answer", wire) ELSE <<>>
    /\ ticks' = [ticks EXCEPT ![m] = SetTick(@, t, Rest(@[t]))]
    /\ UNCHANGED <<used, live, auth, privateKey, keyBufs, callbacks, currentUser, pollingInterval, timers,
                   connections, sessionKeys>>

HandleOfferAnswer(m, t) ==
    \E usePgp \in BOOLEAN, arrived \in BOOLEAN, peerKnown \in BOOLEAN :
        HandleOfferAnswerWith(m, t, usePgp, arrived, peerKnown)

\* handleOffer resumed with createAnswer or setLocalDescription rejected
HandleOfferAnswerFails(m, t) ==
    /\ IsTick(m, t) /\ ticks[m][t].st = "respond"
    /\ ticks' = [ticks EXCEPT ![m] = SetTick(@, t, Rest(@[t]))]
    /\ out' = <<>>
    /\ UNCHANGED <<used, live, auth, privateKey, keyBufs, callbacks, currentUser, pollingInterval, timers,
                   connections, objs, sessionKeys, relay>>

\* -------------------------------------------------------- handleAnswer
\* handleAnswer returns: no entry, or the flag is already set
HandleAnswerIgnored(m, t) ==
    /\ Running(m, t, "answer")
    /\ LET c == connections[m][Signal(m, t).from_user]
       IN IF c = 0 THEN TRUE ELSE objs[m][c].hasRemoteDescription
    /\ ticks' = [ticks EXCEPT ![m] = SetTick(@, t, Rest(@[t]))]
    /\ out' = <<>>
    /\ UNCHANGED <<used, live, auth, privateKey, keyBufs, callbacks, currentUser, pollingInterval, timers,
                   connections, objs, sessionKeys, relay>>

\* handleAnswer without the check of hasRemoteDescription
HandleAnswerUnchecked(m, t) ==
    /\ Running(m, t, "answer")
    /\ LET p == Signal(m, t).from_user
           c == connections[m][p]
       IN /\ c # 0
          /\ ticks' = [ticks EXCEPT ![m][t] = [@ EXCEPT !.st = "answer", !.peer = p, !.conn = c]]
    /\ out' = <<>>
    /\ UNCHANGED <<used, live, auth, privateKey, keyBufs, callbacks, currentUser, pollingInterval, timers,
                   connections, objs, sessionKeys, relay>>

\* handleAnswer up to the await on setRemoteDescription
HandleAnswer(m, t) ==
    /\ Running(m, t, "answer")
    /\ LET p == Signal(m, t).from_user
           c == connections[m][p]
       IN /\ c # 0 /\ ~objs[m][c].hasRemoteDescription
          /\ ticks' = [ticks EXCEPT ![m][t] = [@ EXCEPT !.st = "answer", !.peer = p, !.conn = c]]
    /\ out' = <<>>
    /\ UNCHANGED <<used, live, auth, privateKey, keyBufs, callbacks, currentUser, pollingInterval, timers,
                   connections, objs, sessionKeys, relay>>

\* setRemoteDescription(answer) can succeed: the transport has a local offer
\* and no remote description
AcceptsAnswer(o) == ~o.closed /\ o.role = "initiator" /\ o.local /\ ~o.remote

\* handleAnswer resumed after setRemoteDescription: flag, then the queue
HandleAnswerApplied(m, t) ==
    /\ IsTick(m, t) /\ ticks[m][t].st = "answer"
    /\ AcceptsAnswer(objs[m][ticks[m][t].conn])
    /\ LET c == ticks[m][t].conn
       IN ProcessPendingCandidates(m, t,
             [objs[m] EXCEPT ![c].remote = TRUE, ![c].hasRemoteDescription = TRUE],
             connections[m][ticks[m][t].peer], "answer")
    /\ out' = <<>>
    /\ UNCHANGED <<used, live, auth, privateKey, keyBufs, callbacks, currentUser, pollingInterval, timers,
                   connections, sessionKeys, relay>>

\* handleAnswer resumed with setRemoteDescription rejected
HandleAnswerRejected(m, t) ==
    /\ IsTick(m, t) /\ ticks[m][t].st = "answer"
    /\ ticks' = [ticks EXCEPT ![m] = SetTick(@, t, Rest(@[t]))]
    /\ out' = <<>>
    /\ UNCHANGED <<used, live, auth, privateKey, keyBufs, callbacks, currentUser, pollingInterval, timers,
                   connections, objs, sessionKeys, relay>>

\* ---------------------------------------------------- handleIceCandidate
HandleIceCandidate(m, t) ==
    /\ Running(m, t, "ice")
    /\ LET c    == connections[m][Signal(m, t).from_user]
           cand == Payload(m, t).val
       IN objs' = [objs EXCEPT ![m] =
             IF c = 0 THEN @
             ELSE IF ~@[c].hasRemoteDescription
             THEN [@ EXCEPT ![c].pendingCandidates = Append(@, cand)]
             ELSE AddIceCandidate(@, c, cand)]
    /\ ticks' = [ticks EXCEPT ![m] = SetTick(@, t, Rest(@[t]))]
    /\ out' = <<>>
    /\ UNCHANGED <<used, live, auth, privateKey, keyBufs, callbacks, currentUser, pollingInterval, timers,
                   connections, sessionKeys, relay>>

\* handleIceCandidate with the remote description set and addIceCandidate (or
\* the RTCIceCandidate constructor) throwing: the catch logs
HandleIceCandidateRejected(m, t) ==
    /\ Running(m, t, "ice")
    /\ LET c    == connections[m][Signal(m, t).from_user]
           cand == Payload(m, t).val
       IN /\ c # 0
          /\ objs[m][c].hasRemoteDescription
          /\ objs' = [objs EXCEPT ![m] =
                [AddIceCandidate(@, c, cand) EXCEPT ![c].rejected = Append(@, cand)]]
    /\ ticks' = [ticks EXCEPT ![m] = SetTick(@, t, Rest(@[t]))]
    /\ out' = <<>>
    /\ UNCHANGED <<used, live, auth, privateKey, keyBufs, callbacks, currentUser, pollingInterval, timers,
                   connections, sessionKeys, relay>>

\* ---------------------------------------------------------- environment
Range(f) == {f[x] : x \in DOMAIN f}

IceEnvelopes(m, p) ==
    {e \in Range(relay[m]) \cup UNION {Range(ticks[m][t].batch) : t \in 1..Len(ticks[m])} :
        e.from_user = p /\ e.type = "ice"}

\* candidate c of peer p has already been handed to manager m
Known(m, p, c) ==
    \/ \E e \in IceEnvelopes(m, p) : DecodePayload(e.encrypted_payload).val = c
    \/ \E n \in 1..Len(objs[m]) :
          /\ objs[m][n].peer = p
          /\ c \in Range(objs[m][n].added) \cup Range(objs[m][n].pendingCandidates)
    \/ \E t \in 1..Len(ticks[m]) : c \in Range(ticks[m][t].arr)

\* the payloads a remote endpoint p puts into envelopes of the given type
RemotePayloads(p, type) ==
    CASE type = "offer" ->
            {JsonStringify([sdp |-> p, type |-> "offer", aesKey |-> k]) :
                k \in {Base64Encode(v) : v \in RemoteKeys} \cup {EmptyString}}
      [] type = "answer" -> {JsonStringify([sdp |-> p, type |-> "answer"])}
      [] type = "ice" -> {JsonStringify(c) : c \in Candidates}

\* a remote endpoint that runs no manager here sends an envelope to m
RemoteSends(m, p, type) ==
    /\ used.remote < MaxRemote
    /\ used' = [used EXCEPT !.remote = @ + 1]
    /\ m \in live /\ p \in Managers \ live
    /\ Len(relay[m]) < MaxInbox
    /\ \E payload \in RemotePayloads(p, type) :
         /\ type = "ice" => ~Known(m, p, JsonParse(payload).val)
         /\ relay' = [relay EXCEPT ![m] = Append(@,
               [from_user |-> p, type |-> type,
                encrypted_payload |-> WirePayload(payload, UsablePgpKey(m))])]
    /\ out' = <<>>
    /\ UNCHANGED <<live, auth, privateKey, keyBufs, callbacks, currentUser, pollingInterval, timers,
                   connections, objs, sessionKeys, ticks>>

\* an envelope whose payload is neither PGP text of JSON nor JSON
RemoteSendsJunk(m, p) ==
    /\ used.remote < MaxRemote
    /\ used' = [used EXCEPT !.remote = @ + 1]
    /\ m \in live /\ p \in Managers \ live
    /\ Len(relay[m]) < MaxInbox
    /\ relay' = [relay EXCEPT ![m] = Append(@,
          [from_user |-> p, type |-> "offer", encrypted_payload |-> <<"junk">>])]
    /\ out' = <<>>
    /\ UNCHANGED <<live, auth, privateKey, keyBufs, callbacks, currentUser, pollingInterval, timers,
                   connections, objs, sessionKeys, ticks>>

\* the candidates a remote endpoint gathers over the life of a session
LateCandidates == Candidates \cup {"c3"}

\* a remote endpoint trickles candidate c to m, each candidate once
RemoteCandidate(m, p, c) ==
    /\ m \in live /\ p \in Managers \ live
    /\ Len(relay[m]) < MaxInbox
    /\ ~Known(m, p, c)
    /\ relay' = [relay EXCEPT ![m] = Append(@,
          [from_user |-> p, type |-> "ice",
           encrypted_payload |-> WirePayload(JsonStringify(c), UsablePgpKey(m))])]
    /\ out' = <<>>
    /\ UNCHANGED <<used, live, auth, privateKey, keyBufs, callbacks, currentUser, pollingInterval,
                   timers, connections, objs, sessionKeys, ticks>>

\* -------------------------------------------- AESService called directly
\* a thrown Error as the result of a call
ThrowEvent(name, p, message) ==
    <<[ev |-> name, peer |-> p, info |-> <<"throws", message>>]>>

\* the encrypted envelopes a caller hands to decrypt
Envelopes ==
    {[iv |-> Base64Encode(iv), ciphertext |-> Base64Encode(Utf8Encode(t)),
      tag |-> Base64Encode(tag)] : t \in Plaintexts, iv \in IVs, tag \in Tags}

GenerateSessionKey(m, p) ==
    /\ m \in live /\ p \in Peers(m)
    /\ Len(keyBufs[m]) < MaxKeys
    /\ LET k == FreshKey(m, Len(keyBufs[m]) + 1)
       IN /\ sessionKeys' = [sessionKeys EXCEPT ![m][p] = k]
          /\ keyBufs' = [keyBufs EXCEPT ![m] = StoreKey(@, p, k)]
          /\ out' = ReturnEvent("generateSessionKey", p, k)
    /\ UNCHANGED <<used, live, auth, privateKey, callbacks, currentUser, pollingInterval, timers,
                   connections, objs, ticks, relay>>

SetSessionKeyCall(m, p) ==
    /\ m \in live /\ p \in Peers(m)
    /\ Len(keyBufs[m]) < MaxKeys
    /\ \E k \in RemoteKeys :
         /\ sessionKeys' = [sessionKeys EXCEPT ![m] = SetSessionKey(@, p, Base64Encode(k))]
         /\ keyBufs' = [keyBufs EXCEPT ![m] =
               StoreKey(@, p, Base64Decode(Base64Encode(k)))]
    /\ out' = <<>>
    /\ UNCHANGED <<used, live, auth, privateKey, callbacks, currentUser, pollingInterval, timers,
                   connections, objs, ticks, relay>>

GetSessionKeyCall(m, p) ==
    /\ m \in live /\ p \in Peers(m)
    /\ out' = ReturnEvent("getSessionKey", p, GetSessionKey(sessionKeys[m], p))
    /\ UNCHANGED <<used, live, auth, privateKey, keyBufs, callbacks, currentUser, pollingInterval, timers,
                   connections, objs, sessionKeys, ticks, relay>>

ExportKeyCall(m, p) ==
    /\ m \in live /\ p \in Peers(m)
    /\ out' = ReturnEvent("exportKey", p, ExportKeyOrNull(sessionKeys[m], p))
    /\ UNCHANGED <<used, live, auth, privateKey, keyBufs, callbacks, currentUser, pollingInterval, timers,
                   connections, objs, sessionKeys, ticks, relay>>

Encrypt(m, p, plaintext) ==
    /\ m \in live /\ p \in Peers(m)
    /\ NonceRoom(keyBufs[m], p)
    /\ \E iv \in IVs :
         IF AesEncrypt(sessionKeys[m], p, plaintext, iv).ok
         THEN /\ out' = ReturnEvent("encrypt", p,
                            AesEncrypt(sessionKeys[m], p, plaintext, iv).val)
              /\ keyBufs' = [keyBufs EXCEPT ![m] = NoteIv(@, p, iv)]
         ELSE /\ out' = ThrowEvent("encrypt", p, "No session key")
              /\ UNCHANGED keyBufs
    /\ UNCHANGED <<used, live, auth, privateKey, callbacks, currentUser, pollingInterval, timers,
                   connections, objs, sessionKeys, ticks, relay>>

Decrypt(m, p, data) ==
    /\ m \in live /\ p \in Peers(m)
    /\ out' = IF AesDecrypt(sessionKeys[m], p, data).ok
              THEN ReturnEvent("decrypt", p, AesDecrypt(sessionKeys[m], p, data).val)
              ELSE ThrowEvent("decrypt", p, "No session key")
    /\ UNCHANGED <<used, live, auth, privateKey, keyBufs, callbacks, currentUser, pollingInterval, timers,
                   connections, objs, sessionKeys, ticks, relay>>

DestroySessionKeyCall(m, p) ==
    /\ m \in live /\ p \in Peers(m)
    /\ sessionKeys' = [sessionKeys EXCEPT ![m] = DestroySessionKey(@, p)]
    /\ keyBufs' = [keyBufs EXCEPT ![m] = DestroyKeyBuf(@, p)]
    /\ out' = <<>>
    /\ UNCHANGED <<used, live, auth, privateKey, callbacks, currentUser, pollingInterval, timers,
                   connections, objs, ticks, relay>>

DestroyAllKeys(m) ==
    /\ m \in live
    /\ sessionKeys' = [sessionKeys EXCEPT ![m] = [p \in Users |-> NoKey]]
    /\ keyBufs' = [keyBufs EXCEPT ![m] = DestroyAllBufs(@)]
    /\ out' = <<>>
    /\ UNCHANGED <<used, live, auth, privateKey, callbacks, currentUser, pollingInterval, timers,
                   connections, objs, ticks, relay>>

\* ------------------------------------------------------------ authStore
\* login: the set after api.login and the PGP key are through; a failure is
\* rethrown and leaves token, username and isAuthenticated as they were
Login(m) ==
    /\ m \in live
    /\ \E ok \in BOOLEAN :
         IF ok
         THEN /\ auth' = [auth EXCEPT ![m] =
                    [token |-> "access_token", username |-> m, isAuthenticated |-> TRUE]]
              /\ out' = ReturnEvent("login", m, Null)
         ELSE /\ UNCHANGED auth
              /\ out' = ThrowEvent("login", m, "Login failed")
    \* loadPrivateKey or generateKeyPair sets the key, unless the request or
    \* the storage fails before
    /\ \E loaded \in {TRUE, privateKey[m]} :
         privateKey' = [privateKey EXCEPT ![m] = loaded]
    /\ UNCHANGED <<used, live, keyBufs, callbacks, currentUser, pollingInterval, timers,
                   connections, objs, sessionKeys, ticks, relay>>

\* logout: api.logout (a failure is ignored), AsyncStorage.multiRemove (a
\* failure rejects logout before the set), then the set
Logout(m) ==
    /\ m \in live
    /\ \E removed \in BOOLEAN :
         IF removed
         THEN /\ auth' = [auth EXCEPT ![m] = LoggedOut]
              /\ out' = ReturnEvent("logout", m, Null)
         ELSE /\ UNCHANGED auth
              /\ out' = ThrowEvent("logout", m, "multiRemove failed")
    /\ UNCHANGED <<used, live, privateKey, keyBufs, callbacks, currentUser, pollingInterval, timers,
                   connections, objs, sessionKeys, ticks, relay>>

\* ------------------------------------------------------- specification
TransportStates == {"connecting", "connected", "disconnected", "failed"}

\* the application's calls and the continuations of connect
AppStep ==
    \/ \E m \in Managers : InitManager(m)
    \/ \E m \in Managers, p \in Users :
          Connect(m, p) \/ ConnectThrows(m, p) \/ Disconnect(m, p)
    \/ \E m \in Managers, n \in 1..MaxPcs :
          ConnectOffer(m, n) \/ ConnectOfferFails(m, n) \/ ConnectSendFails(m, n)
    \/ \E m \in Managers : StopPolling(m)

SendStep == \E m \in Managers, p \in Users, text \in Texts : SendMessage(m, p, text)

\* sendMessage toward the other manager
PairSend == \E m \in Managers, p \in Managers, text \in Texts : SendMessage(m, p, text)

\* events of the WebRTC library on a transport and on its channel
ChannelStep ==
    \E m \in Managers, n \in 1..MaxPcs :
          \/ \E s \in TransportStates : ConnectionStateChange(m, n, s)
          \/ IceConnectionFailed(m, n)
          \/ ChannelOpen(m, n) \/ ChannelClose(m, n)
          \/ ChannelError(m, n)

EventStep ==
    \/ ChannelStep
    \/ \E m \in Managers, n \in 1..MaxPcs : OnDataChannel(m, n) \/ OnIceCandidate(m, n)

\* the poll loop and the handling of connection-offers
OfferStep ==
    \/ \E m \in Managers : PollTick(m)
    \/ \E m \in Managers, t \in TickIds :
          \/ HandleOfferIgnored(m, t) \/ HandleOffer(m, t)
          \/ HandleOfferApplied(m, t) \/ HandleOfferAnswer(m, t)

\* the other signals, and the ways a handler fails
SignalStep ==
    \/ \E m \in Managers : PollFails(m)
    \/ \E m \in Managers, t \in TickIds :
          \/ HandleUndecodable(m, t)
          \/ HandleOfferThrows(m, t)
          \/ HandleOfferRejected(m, t) \/ HandleOfferAnswerFails(m, t)
          \/ HandleAnswerIgnored(m, t) \/ HandleAnswer(m, t)
          \/ HandleAnswerApplied(m, t) \/ HandleAnswerRejected(m, t)
          \/ HandleIceCandidate(m, t) \/ DrainStep(m, t)

PollStep == OfferStep \/ SignalStep

\* endpoints outside the model
RemoteOffer == \E m \in Managers, p \in Users : RemoteSends(m, p, "offer")

RemoteStep ==
    \/ RemoteOffer
    \/ \E m \in Managers, p \in Users :
          \/ \E type \in {"answer", "ice"} : RemoteSends(m, p, type)
          \/ RemoteSendsJunk(m, p)

MessageStep == \E m \in Managers, n \in 1..MaxPcs : ChannelMessage(m, n)

\* calls of the key store and the codec
KeyStep ==
    \/ \E m \in Managers, p \in Users :
          \/ GenerateSessionKey(m, p) \/ SetSessionKeyCall(m, p)
          \/ GetSessionKeyCall(m, p) \/ ExportKeyCall(m, p)
          \/ DestroySessionKeyCall(m, p)
    \/ \E m \in Managers : DestroyAllKeys(m)

CodecStep ==
    \/ \E m \in Managers, p \in Users, text \in Plaintexts : Encrypt(m, p, text)
    \/ \E m \in Managers, p \in Users, data \in Envelopes : Decrypt(m, p, data)

\* the user logs in and out
AuthStep == \E m \in Managers : Login(m) \/ Logout(m)

\* the whole system
Next ==
    \/ AppStep \/ SendStep \/ EventStep \/ MessageStep \/ PollStep \/ RemoteStep
    \/ KeyStep \/ CodecStep \/ AuthStep
    \/ \E m \in Managers, p \in Users, c \in LateCandidates : RemoteCandidate(m, p, c)
Spec == Init /\ [][Next]_vars

\* negotiation: the calls that start it, the signals and their handlers
SignalApp ==
    \/ \E m \in Managers : InitManager(m)
    \/ \E m \in Managers, p \in Managers : Connect(m, p)
    \/ \E m \in Managers, n \in 1..MaxPcs :
          ConnectOffer(m, n) \/ ConnectOfferFails(m, n) \/ ConnectSendFails(m, n)

NextSignal == SignalApp \/ PollStep \/ RemoteStep
SpecSignal == Init /\ [][NextSignal]_vars

\* the session life cycle: the application's calls and the library's events
NextApi == AppStep \/ ChannelStep
SpecApi == InitAlice /\ [][NextApi]_vars

\* calls toward the other manager that go through
CallApp ==
    \/ \E m \in Managers : InitManager(m)
    \/ \E m \in Managers, p \in Managers : Connect(m, p)
    \/ \E m \in Managers, n \in 1..MaxPcs : ConnectOffer(m, n)

\* messaging: sessions of both roles, their channels, sendMessage
NextChat == CallApp \/ OfferStep \/ RemoteOffer \/ EventStep \/ SendStep
SpecChat == InitBob /\ [][NextChat]_vars

\* two managers that call each other
PairAnswer ==
    \E m \in Managers, t \in TickIds :
          HandleAnswer(m, t) \/ HandleAnswerApplied(m, t)

NextPair == CallApp \/ OfferStep \/ PairAnswer
SpecPair == InitPair /\ [][NextPair]_vars

\* the key store and the codec on their own
NextKeys == KeyStep \/ CodecStep
SpecKeys == InitAlice /\ [][NextKeys]_vars

\* a login session of the user: the chat screen's calls and the key store
NextAuth == AuthStep \/ CallApp \/ KeyStep
SpecAuth == InitAlice /\ [][NextAuth]_vars

\* trickled candidates: an initiator session, its answer and the candidates
\* of the peer, handled by poll ticks that may overlap
IceStep ==
    \/ \E m \in Managers : PollTick(m)
    \/ \E m \in Managers, t \in TickIds :
          \/ HandleAnswerIgnored(m, t) \/ HandleAnswer(m, t)
          \/ HandleAnswerApplied(m, t)
          \/ HandleIceCandidate(m, t) \/ DrainStep(m, t)

RemoteIce ==
    \/ \E m \in Managers, p \in Users : RemoteSends(m, p, "answer")
    \/ \E m \in Managers, p \in Users, c \in LateCandidates : RemoteCandidate(m, p, c)

NextIce == CallApp \/ IceStep \/ RemoteIce
SpecIce == InitAlice /\ [][NextIce]_vars

\* the poll loop started and stopped while offers come in
PollApp ==
    \/ \E m \in Managers : InitManager(m) \/ StopPolling(m)
    \/ \E m \in Managers, p \in Users : Disconnect(m, p)

NextPoll == PollApp \/ OfferStep \/ (\E m \in Managers : PollFails(m)) \/ RemoteOffer
SpecPoll == InitBob /\ [][NextPoll]_vars

\* receiving: sessions made by connect, their channels and the frames on them
NextInbound == CallApp \/ ChannelStep \/ MessageStep
SpecInbound == InitBob /\ [][NextInbound]_vars

\* the values of RTCPeerConnection.connectionState
ConnectionStates == {"new", "connecting", "connected", "disconnected", "failed", "closed"}

\* a session coming up: the transport reports its connection states and the
\* data channel opens, in either order
LifecycleStep ==
    \E m \in Managers, n \in 1..MaxPcs :
          \/ \E s \in ConnectionStates : ConnectionStateChange(m, n, s)
          \/ ChannelOpen(m, n)

NextLifecycle == CallApp \/ LifecycleStep
SpecLifecycle == InitAlice /\ [][NextLifecycle]_vars

\* candidates the transport refuses: an initiator session, its answer, the
\* candidates of the peer and the failures of addIceCandidate
RejectStep ==
    \E m \in Managers, t \in TickIds :
          HandleIceCandidateRejected(m, t) \/ DrainStepRejected(m, t)

RemoteTrickle ==
    \E m \in Managers, p \in Users, type \in {"answer", "ice"} : RemoteSends(m, p, type)

NextReject == CallApp \/ IceStep \/ RejectStep \/ RemoteTrickle
SpecReject == InitAlice /\ [][NextReject]_vars

\* two peers of one manager: a session toward @carol whose connect stays
\* suspended at createOffer, and toward the other manager the calls, the
\* signals and every way a call or a handler fails
FaultApp ==
    \/ \E m \in Managers : InitManager(m)
    \/ \E m \in Managers, p \in Users : Connect(m, p)
    \/ \E m \in Managers, p \in Managers : ConnectThrows(m, p)
    \/ \E m \in Managers, n \in 1..MaxPcs :
          /\ n <= Len(objs[m]) /\ objs[m][n].peer \in Managers
          /\ ConnectOffer(m, n) \/ ConnectOfferFails(m, n) \/ ConnectSendFails(m, n)

FaultHandlers ==
    \/ \E m \in Managers : PollTick(m)
    \/ \E m \in Managers, t \in TickIds :
          \/ HandleUndecodable(m, t)
          \/ HandleOffer(m, t) \/ HandleOfferThrows(m, t)
          \/ HandleOfferApplied(m, t)
          \/ HandleOfferRejected(m, t) \/ HandleOfferAnswerFails(m, t)
          \/ HandleAnswer(m, t) \/ HandleAnswerRejected(m, t)
          \/ HandleIceCandidate(m, t) \/ HandleIceCandidateRejected(m, t)
          \/ DrainStepRejected(m, t)

NextFault == FaultApp \/ FaultHandlers \/ RemoteStep \/ PairSend
SpecFault == InitBob /\ [][NextFault]_vars

\* signaling between two managers: offers and answers, sent encrypted or
\* plain, polled and decoded by the other side
EnvelopeStep == \E m \in Managers, t \in TickIds : HandleUndecodable(m, t)

NextEnvelope == CallApp \/ OfferStep \/ PairAnswer \/ EnvelopeStep
SpecEnvelope == InitRelaunch /\ [][NextEnvelope]_vars

\* messages from one manager to the other: sessions made by connect, their
\* channels open, session keys present or destroyed on either side
DeliveryStep ==
    \/ \E m \in Managers : InitManager(m)
    \/ \E m \in Managers, p \in Managers : Connect(m, p) \/ DestroySessionKeyCall(m, p)
    \/ \E m \in Managers, n \in 1..MaxPcs : ChannelOpen(m, n) \/ ReceiveFrame(m, n)

NextDelivery == DeliveryStep \/ PairSend
SpecDelivery == InitPair /\ [][NextDelivery]_vars

\* a transport with both descriptions applied, on which the connection can
\* come up
Negotiated(o) == o.local /\ o.remote /\ ~o.closed

\* two managers that call each other and whose negotiated transports report
\* 'connected'
ConnectedStep ==
    \E m \in Managers, n \in 1..MaxPcs :
          /\ n <= Len(objs[m]) /\ Negotiated(objs[m][n])
          /\ ConnectionStateChange(m, n, "connected")

NextAgree == CallApp \/ OfferStep \/ PairAnswer \/ ConnectedStep
SpecAgree == InitPair /\ [][NextAgree]_vars

\* ================================================================ claims
\* an envelope of the given type from p waits in m's inbox or in one of m's
\* poll ticks (a tick keeps the envelope until its handler has returned)
Pending(m, p, type) ==
    \E e \in Range(relay[m]) \cup
              UNION {Range(ticks[m][t].batch) : t \in 1..Len(ticks[m])} :
        e.from_user = p /\ e.type = type

\* m called connect(p) once, before it handled anything from p, and the offer
\* reached the relay
CalledFirst(m, p) ==
    /\ Len(objs[m]) >= 1
    /\ objs[m][1].peer = p /\ objs[m][1].role = "initiator" /\ objs[m][1].cpc = "done"
    /\ \A n \in 2..Len(objs[m]) : objs[m][n].role # "initiator"

\* both managers have called the other and the two offers have been handled
GlareSettled ==
    /\ CalledFirst("@alice", "@bob") /\ CalledFirst("@bob", "@alice")
    /\ ~Pending("@alice", "@bob", "offer") /\ ~Pending("@bob", "@alice", "offer")

\* C1: when @alice and @bob have each called connect() toward the other and
\* each has then received and handled the other's offer, in whatever order,
\* each holds a session for the other: @bob still the one its own connect()
\* made, its transport open, @alice a responder session made by handleOffer,
\* the transport of her own offer closed.
C1_GlareKeepsHigherOffer ==
    GlareSettled =>
        /\ connections["@bob"]["@alice"] = 1
        /\ ~objs["@bob"][1].closed
        /\ Len(objs["@bob"]) = 1
        /\ connections["@alice"]["@bob"] = 2
        /\ objs["@alice"][2].role = "responder"
        /\ ~objs["@alice"][2].closed
        /\ objs["@alice"][1].closed

\* the glare has happened and been settled, the answer applied by @bob
C1_Witness ==
    /\ GlareSettled
    /\ objs["@bob"][1].hasRemoteDescription
    /\ ticks["@alice"] = <<>> /\ ticks["@bob"] = <<>>

\* C2: no candidate is ever passed to addIceCandidate of a session's transport
\* unless that session's remote description has been applied and its
\* hasRemoteDescription flag is set, whichever of handleIceCandidate and
\* processPendingCandidates passes it, for sessions of either role.
C2_AppliedOnlyAfterRemoteDescription ==
    \A m \in Managers : \A n \in 1..Len(objs[m]) :
        ~objs[m][n].addedNoRemote /\ ~objs[m][n].addedNoFlag

\* a is b with elements left out
RECURSIVE IsSubSeq(_, _)
IsSubSeq(a, b) ==
    IF a = <<>> THEN TRUE
    ELSE IF b = <<>> THEN FALSE
    ELSE IF Head(a) = Head(b) THEN IsSubSeq(Tail(a), Tail(b))
    ELSE IsSubSeq(a, Tail(b))

NoDuplicates(q) == \A i, j \in 1..Len(q) : q[i] = q[j] => i = j

\* tick t of m is in the loop of processPendingCandidates over the queue of entry n
Draining(m, t, n) == ticks[m][t].st = "drain" /\ ticks[m][t].conn = n

\* the candidates the loop of tick t has passed to addIceCandidate so far
Flushed(m, t) ==
    SubSeq(IF ticks[m][t].det THEN ticks[m][t].arr
           ELSE objs[m][ticks[m][t].conn].pendingCandidates, 1, ticks[m][t].i)

\* a queued candidate is not applied while the transport has no remote description
QueuedNotApplied ==
    \A m \in Managers : \A n \in 1..Len(objs[m]) :
        ~objs[m][n].remote =>
            Range(objs[m][n].pendingCandidates) \cap Range(objs[m][n].added) = {}

\* the flush applies the queue in arrival order, each candidate once
FlushInOrder ==
    \A m \in Managers : \A n \in 1..Len(objs[m]) :
        /\ NoDuplicates(objs[m][n].added)
        /\ \A t \in 1..Len(ticks[m]) :
              Draining(m, t, n) => IsSubSeq(Flushed(m, t), objs[m][n].added)

\* once the description is applied and the flush over, the queue is empty
FlushEmpties ==
    \A m \in Managers : \A p \in Users :
        LET n == connections[m][p]
        IN (/\ n # 0
            /\ objs[m][n].hasRemoteDescription
            /\ \A t \in 1..Len(ticks[m]) : ~Draining(m, t, n))
           => objs[m][n].pendingCandidates = <<>>

\* C3: a candidate handed to handleIceCandidate while the session's
\* hasRemoteDescription is false is queued and stays out of the applied list
\* until the remote description has been applied; the flush then applies the
\* queued candidates once each, in arrival order, and leaves the queue empty.
C3_QueuedThenFlushedInOrder == QueuedNotApplied /\ FlushInOrder /\ FlushEmpties

\* tick t of m is about to handle an answer for a session whose remote
\* description is applied
DuplicateAnswer(m, t) ==
    /\ Running(m, t, "answer")
    /\ LET c == connections[m][Signal(m, t).from_user]
       IN IF c = 0 THEN FALSE ELSE objs[m][c].remote

\* C4: an answer delivered to a session whose remote description is already
\* applied changes nothing: handleAnswer returns at once without calling
\* setRemoteDescription, no candidate is applied, sessions, flags, states and
\* keys stay as they are, and no callback or error is raised.
C4_DuplicateAnswerIgnored ==
    [][\A m \in Managers : \A t \in TickIds :
          (DuplicateAnswer(m, t) /\ (HandleAnswerIgnored(m, t) \/ HandleAnswer(m, t)))
          => /\ ticks'[m] = SetTick(ticks[m], t, Rest(ticks[m][t]))
             /\ out' = <<>>
             /\ UNCHANGED <<connections, objs, sessionKeys, callbacks, currentUser,
                            pollingInterval, timers, relay>>]_vars

\* a second answer is about to be handled after the first was applied
C4_Witness ==
    \E m \in Managers : \E t \in 1..Len(ticks[m]) :
        /\ DuplicateAnswer(m, t)
        /\ objs[m][connections[m][Signal(m, t).from_user]].role = "initiator"

\* the data channel sendMessage looks at: 0 when there is none
ChannelOf(m, p) ==
    IF connections[m][p] = 0 THEN 0 ELSE objs[m][connections[m][p]].dataChannel

OpenChannel(m, p) ==
    IF ChannelOf(m, p) = 0 THEN FALSE ELSE objs[m][ChannelOf(m, p)].dc = "open"

\* the step is a call sendMessage(p, ...): its result is the last thing emitted
SendReturns(o, p) ==
    /\ o # <<>>
    /\ o[Len(o)].ev = "sendMessage" /\ o[Len(o)].peer = p

\* C5: sendMessage(peerId, text) with no session for peerId, a session without
\* data channel or a data channel that is not open returns false and does
\* nothing else: no frame, no callback, sessions, keys and poller untouched.
C5_SendWithoutChannel ==
    [][\A m \in live : \A p \in Users :
          (~OpenChannel(m, p) /\ SendReturns(out', p))
          => /\ Len(out') = 1
             /\ out'[1].info = <<"returns", FALSE>>
             /\ UNCHANGED <<connections, objs, sessionKeys, callbacks, currentUser,
                            pollingInterval, timers, ticks, relay>>]_vars

\* sendMessage has just returned false for a session whose channel is not open
C5_Witness ==
    /\ SendReturns(out, "@alice")
    /\ out[1].info = <<"returns", FALSE>>
    /\ ChannelOf("@bob", "@alice") # 0
    /\ ~OpenChannel("@bob", "@alice")

\* the frame f carries text: in clear without a key, else as the ciphertext
\* of an encrypted envelope
Carries(f, text, key) ==
    IF key = NoKey THEN f[1] = "text" /\ f[2] = text
    ELSE f[1] = "json" /\ Utf8Decode(Base64Decode(f[2].ciphertext)) = text

Torn(os, c, d) ==
    /\ os[c].closed
    /\ os[c].dc \notin {"connecting", "open"}
    /\ IF d = 0 THEN TRUE ELSE os[d].dc \notin {"connecting", "open"}

\* session and key that manager m holds for peer q are what they were
SameFor(m, q) ==
    /\ connections'[m][q] = connections[m][q]
    /\ sessionKeys'[m][q] = sessionKeys[m][q]
    /\ IF connections[m][q] = 0 THEN TRUE
       ELSE objs'[m][connections[m][q]] = objs[m][connections[m][q]]

\* C7: disconnect(peerId) on a peer that has a session closes the session's
\* data channel and transport, removes the session and the session key of
\* peerId, so that getConnectionStatus(peerId) is 'idle', and leaves the
\* sessions and keys of all other peers as they were.
C7_DisconnectTearsDown ==
    [][\A m \in Managers : \A p \in Users :
          (connections[m][p] # 0 /\ Disconnect(m, p))
          => /\ Torn(objs'[m], connections[m][p], objs[m][connections[m][p]].dataChannel)
             /\ connections'[m][p] = 0
             /\ sessionKeys'[m][p] = NoKey
             /\ GetConnectionStatus(m, p)' = "idle"
             /\ \A q \in Users \ {p} : SameFor(m, q)]_vars

\* a session has been torn down while the session of another peer stays
C7_Witness ==
    \E n \in 1..Len(objs["@alice"]) :
        /\ objs["@alice"][n].peer = "@bob" /\ objs["@alice"][n].closed
        /\ connections["@alice"]["@bob"] = 0
        /\ sessionKeys["@alice"]["@bob"] = NoKey
        /\ connections["@alice"]["@carol"] # 0
        /\ sessionKeys["@alice"]["@carol"] # NoKey

\* C8: disconnect(peerId) on a peer without session changes nothing in the
\* manager: session map, sessions, key store, callbacks and the poll loop,
\* which keeps running if it was running.
C8_DisconnectNoSessionNoOp ==
    [][\A m \in Managers : \A p \in Users :
          (connections[m][p] = 0 /\ Disconnect(m, p))
          => UNCHANGED <<connections, objs, sessionKeys, callbacks, currentUser,
                         pollingInterval, timers>>]_vars

SessionStates == {"connecting", "connected", "disconnected", "failed"}

\* the state the step reported last for peer p through onStateChange, Null if none
RECURSIVE LastReported(_, _)
LastReported(o, p) ==
    IF o = <<>> THEN Null
    ELSE IF o[Len(o)].ev = "onStateChange" /\ o[Len(o)].peer = p THEN o[Len(o)].info
    ELSE LastReported(SubSeq(o, 1, Len(o) - 1), p)

\* C9: getConnectionStatus(peerId) is 'idle' exactly when there is no session
\* for peerId; for a session it is the state recorded last: the one a step
\* reports through onStateChange, and unchanged by a step that reports none
\* and leaves the session in place.
C9_StatusIsLastRecorded ==
    /\ [](\A m \in live : \A p \in Users :
            /\ (GetConnectionStatus(m, p) = "idle") <=> (connections[m][p] = 0)
            /\ GetConnectionStatus(m, p) \in SessionStates \cup {"idle"})
    /\ [][\A m \in live : \A p \in Users :
            connections'[m][p] # 0 =>
               IF LastReported(out', p) # Null
               THEN GetConnectionStatus(m, p)' = LastReported(out', p)
               ELSE connections'[m][p] = connections[m][p]
                    => GetConnectionStatus(m, p)' = GetConnectionStatus(m, p)]_vars

\* a session whose state an event has changed after its creation
C9_Witness ==
    /\ connections["@alice"]["@bob"] # 0
    /\ GetConnectionStatus("@alice", "@bob") = "connected"
    /\ LastReported(out, "@bob") = "connected"

\* C10: whatever init, connect, disconnect and stopPolling calls have been
\* made, at most one poll timer is alive, the one pollingInterval holds: an
\* init() while the loop runs starts no second one.
C10_OnePoller ==
    \A m \in Managers :
        /\ Cardinality(timers[m]) <= 1
        /\ timers[m] = IF pollingInterval[m] = 0 THEN {} ELSE {pollingInterval[m]}

\* the loop runs, started by an init() before the calls that made two sessions
C10_Witness ==
    /\ pollingInterval["@alice"] # 0 /\ timers["@alice"] = {pollingInterval["@alice"]}
    /\ connections["@alice"]["@bob"] # 0 /\ connections["@alice"]["@carol"] # 0

\* the number of bytes of a key: generateSessionKey fills a Uint8Array(32), and
\* so do the endpoints outside the model
ByteLength(k) == IF k[1] = "key" THEN 32 ELSE 0

\* the payload of envelope i of the last step is that of a connection-offer
\* with the session key stored for its addressee
CarriesStoredKey(m, i) ==
    LET v == DecodePayload(out[i].info[2]).val
    IN /\ v.type = "offer"
       /\ v.aesKey # EmptyString
       /\ sessionKeys[m][out[i].peer] # NoKey
       /\ v.aesKey = Base64Encode(sessionKeys[m][out[i].peer])
       /\ ByteLength(Base64Decode(v.aesKey)) = 32

\* C11: every connection-offer envelope that connect(peer) sends has a payload
\* {type: "offer", sdp, aesKey} whose aesKey is the encoding of a 32-byte key,
\* the session key the key store holds for that peer when the envelope is
\* sent, also when disconnect or an incoming offer for the peer ran while
\* connect was suspended.
C11_OfferCarriesStoredKey ==
    \A m \in live : \A i \in 1..Len(out) :
        IF out[i].ev = "sendSignal"
        THEN out[i].info[1] = "offer" => CarriesStoredKey(m, i)
        ELSE TRUE

\* the connection-answer envelopes among what a step emitted
Answers(o) == {i \in 1..Len(o) : o[i].ev = "sendSignal" /\ o[i].info[1] = "answer"}

\* tick t of m is handling an offer from a peer that had no session when the
\* handler began
AnsweringFresh(m, t) ==
    /\ IsTick(m, t)
    /\ ticks[m][t].st \in {"offer", "respond"}
    /\ ticks[m][t].existing = 0

\* the session handleOffer stores for p: a new transport, state 'connecting'
FreshResponder(m, p) ==
    /\ connections'[m][p] = Len(objs[m]) + 1
    /\ Len(objs'[m]) = Len(objs[m]) + 1
    /\ objs'[m][connections'[m][p]].role = "responder"
    /\ objs'[m][connections'[m][p]].state = "connecting"

HeldFor(m, ps) ==
    {i \in 1..Len(keyBufs[m]) : keyBufs[m][i].held /\ keyBufs[m][i].peer \in ps}

\* after the step the keys of the peers in ps are absent and the buffers that
\* held them are zero
Destroyed(m, ps) ==
    /\ \A p \in ps :
          /\ GetSessionKey(sessionKeys'[m], p) = NoKey
          /\ ExportKeyOrNull(sessionKeys'[m], p) = NoKey
    /\ \A i \in HeldFor(m, ps) : keyBufs'[m][i].bytes = Zeros

\* what getSessionKey returns is the content of the one buffer the store
\* holds for the peer
StoreHoldsBuffers ==
    \A m \in live : \A p \in Users :
        /\ Cardinality(HeldFor(m, {p})) <= 1
        /\ GetSessionKey(sessionKeys[m], p) =
              IF HeldBuf(keyBufs[m], p) = 0 THEN NoKey
              ELSE keyBufs[m][HeldBuf(keyBufs[m], p)].bytes

\* C13: after destroySessionKey(peerId), and after destroyAllKeys() for every
\* peer, getSessionKey and exportKey return null and the buffer that held the
\* key, the one generateSessionKey and getSessionKey returned, is all zero and
\* stays so.
C13_DestroyedKeysAreZero ==
    /\ []StoreHoldsBuffers
    /\ [][\A m \in live :
            /\ \A p \in Peers(m) : DestroySessionKeyCall(m, p) => Destroyed(m, {p})
            /\ DestroyAllKeys(m) => Destroyed(m, Users)
            /\ \A i \in 1..Len(keyBufs[m]) :
                  keyBufs[m][i].bytes = Zeros => keyBufs'[m][i].bytes = Zeros]_vars

\* the key of @bob has been destroyed, its buffer is zero, and the key of
\* @carol is still held
C13_Witness ==
    /\ sessionKeys["@alice"]["@bob"] = NoKey
    /\ sessionKeys["@alice"]["@carol"] # NoKey
    /\ \E i \in 1..Len(keyBufs["@alice"]) :
          /\ keyBufs["@alice"][i].peer = "@bob"
          /\ keyBufs["@alice"][i].bytes = Zeros

\* the last step was encrypt(p, ...) and returned an envelope
EncryptReturned(o, p) ==
    /\ o # <<>>
    /\ o[1].ev = "encrypt" /\ o[1].peer = p
    /\ o[1].info[1] = "returns"

\* the step is a call of encrypt or decrypt
CodecCall(o) == o # <<>> /\ o[1].ev \in {"encrypt", "decrypt"}

\* C14: for every peer with an installed session key and every plaintext
\* string, decrypt(peerId, ...) of what encrypt(peerId, plaintext) has just
\* returned gives the plaintext, and neither call changes the key store.
C14_EncryptDecryptRoundTrip ==
    [][/\ \A m \in live : \A p \in Peers(m) : \A plaintext \in Plaintexts :
            (/\ EncryptReturned(out, p)
             /\ sessionKeys[m][p] # NoKey
             /\ \E iv \in IVs :
                   out[1].info[2] = AesEncrypt(sessionKeys[m], p, plaintext, iv).val
             /\ CodecCall(out') /\ out'[1].ev = "decrypt"
             /\ Decrypt(m, p, out[1].info[2]))
            => out'[1].info = <<"returns", plaintext>>
       /\ CodecCall(out') =>
            /\ sessionKeys' = sessionKeys
            /\ \A m \in live : \A i \in 1..Len(keyBufs[m]) :
                  /\ keyBufs'[m][i].bytes = keyBufs[m][i].bytes
                  /\ keyBufs'[m][i].held = keyBufs[m][i].held]_vars

\* C15: among the encrypt calls made while the same session key is installed
\* for a peer, no two return the same iv.
C15_NoncesUnique ==
    \A m \in live : \A i \in 1..Len(keyBufs[m]) : NoDuplicates(keyBufs[m][i].ivs)

\* the tag field encrypt writes (16 zero bytes): the tag of an envelope verifies
\* when it is that one
TagVerifies(data) == data.tag = Base64Encode("zero16")

\* the callbacks of the given name among what a step emitted
Fired(o, name, p) == {i \in 1..Len(o) : o[i].ev = name /\ o[i].peer = p}

\* C16: a received encrypted message whose integrity tag does not verify is
\* rejected: it is not delivered to onMessage and the failure is surfaced
\* through onError.
C16_BadTagRejected ==
    [][\A m \in live : \A n \in 1..Len(objs[m]) : \A data \in InboundFrames :
          (/\ JsonParse(data).ok
           /\ sessionKeys[m][objs[m][n].peer] # NoKey
           /\ ~TagVerifies(JsonParse(data).val)
           /\ ChannelMessageOf(m, n, data))
          => /\ Fired(out', "onMessage", objs[m][n].peer) = {}
             /\ Fired(out', "onError", objs[m][n].peer) # {}]_vars

\* the step is a connect(p) of m that fails: at the constructor or
\* createDataChannel, at createOffer or setLocalDescription, or at the relay
\* request of the offer
ConnectFails(m, p) ==
    \/ ConnectThrows(m, p)
    \/ \E n \in 1..Len(objs[m]) :
          /\ objs[m][n].peer = p
          /\ ConnectOfferFails(m, n) \/ ConnectSendFails(m, n)

\* C17: when a step of connect(peer) that constructs or sends the offer
\* fails, connect returns through its catch: onError(peerId, message) is
\* called exactly once, onStateChange(peerId, 'failed') is reported, and the
\* session for peerId is in state 'failed'.
C17_ConnectFailureMarksFailed ==
    [][\A m \in live : \A p \in Peers(m) :
          ConnectFails(m, p)
          => /\ Cardinality(Fired(out', "onError", p)) = 1
             /\ LastReported(out', p) = "failed"
             /\ connections'[m][p] # 0
             /\ objs'[m][connections'[m][p]].state = "failed"]_vars

TerminalStates == {"failed", "disconnected"}

\* C18: 'failed' and 'disconnected' are terminal for a PeerSession: once the
\* state of a session is one of them, no later event (transport or ICE state
\* change, data-channel open, close or error, a further connect call)
\* changes the state of that session.
C18_TerminalStatesStay ==
    [][\A m \in live : \A n \in 1..Len(objs[m]) :
          objs[m][n].state \in TerminalStates
          => objs'[m][n].state = objs[m][n].state]_vars

\* tick t of m is about to handle a connection-offer from a peer whose stored
\* session is in state 'failed' or 'disconnected'
OfferAfterTerminal(m, t) ==
    /\ Running(m, t, "offer")
    /\ LET c == connections[m][Signal(m, t).from_user]
       IN IF c = 0 THEN FALSE ELSE objs[m][c].state \in TerminalStates

\* the session stored for p after the step is a new one: a new transport,
\* state 'connecting', an empty queue, no remote description yet
FreshSession(m, p) ==
    /\ connections'[m][p] = Len(objs[m]) + 1
    /\ Len(objs'[m]) = Len(objs[m]) + 1
    /\ LET o == objs'[m][connections'[m][p]]
       IN /\ o.state = "connecting" /\ ~o.closed
          /\ o.pendingCandidates = <<>>
          /\ ~o.hasRemoteDescription /\ ~o.remote

\* C19: when the session stored for a peer is in state 'failed' or
\* 'disconnected', an incoming connection-offer from that peer, and a
\* connect() to that peer, store a fresh PeerSession in 'connecting' (new
\* transport, empty candidate queue, hasRemoteDescription false), whichever
\* of the two identifiers is the higher.
C19_FreshSessionAfterTerminal ==
    [][\A m \in live :
          /\ \A t \in TickIds :
                (OfferAfterTerminal(m, t)
                   /\ (HandleOfferIgnored(m, t) \/ HandleOffer(m, t)))
                => FreshSession(m, Signal(m, t).from_user)
          /\ \A p \in Peers(m) :
                (/\ connections[m][p] # 0
                 /\ objs[m][connections[m][p]].state \in TerminalStates
                 /\ Connect(m, p))
                => FreshSession(m, p)]_vars

\* the step takes the session stored for p out of the session map: disconnect,
\* or handleOffer's collision branch on the side that loses
SessionRemoved(m, p) ==
    /\ connections[m][p] # 0
    /\ \/ Disconnect(m, p)
       \/ \E t \in TickIds :
             /\ Running(m, t, "offer") /\ Signal(m, t).from_user = p
             /\ HandleOffer(m, t) \/ HandleOfferThrows(m, t)

\* C20: on every path that removes a PeerSession from the session map
\* (disconnect, the collision rule on the lower side) the session key stored
\* for that peer is destroyed: its buffer is zero and the store no longer
\* holds it.
C20_TeardownDestroysKey ==
    [][\A m \in live : \A p \in Peers(m) :
          SessionRemoved(m, p)
          => \A i \in HeldFor(m, {p}) :
                /\ keyBufs'[m][i].bytes = Zeros
                /\ ~keyBufs'[m][i].held]_vars

\* the step is a logout() that completes
LogoutCompletes(m) ==
    /\ Logout(m)
    /\ out'[1].info[1] = "returns"

\* C21: after the user has logged out (authStore.logout completes) no session
\* key remains in the key store: every key that was stored is removed and its
\* buffer zeroed, as destroyAllKeys does.
C21_LogoutDestroysAllKeys ==
    [][\A m \in live : LogoutCompletes(m) => Destroyed(m, Users)]_vars

\* tick t of m is about to handle a connection-offer from a peer for which a
\* session is stored, and the identifier of m is the higher one
OfferToHigherSide(m, t) ==
    /\ Running(m, t, "offer")
    /\ connections[m][Signal(m, t).from_user] # 0
    /\ StrGreater(m, Signal(m, t).from_user)

Accounted(os, tks, n) ==
    Range(os[n].pendingCandidates) \cup Range(os[n].added)
       \cup UNION {Range(tks[t].arr) :
                     t \in {u \in 1..Len(tks) : tks[u].st = "drain" /\ tks[u].conn = n}}

\* C23: under any interleaving of the signal handlers of one peer (an answer
\* or offer being applied and its queue drained while further candidates or
\* answers are handled), no candidate received for a session is lost, that
\* is dropped from the queue without being passed to addIceCandidate, and no
\* candidate is passed to addIceCandidate of the transport more than once.
C23_NoCandidateLostOrRepeated ==
    /\ [](\A m \in live : \A n \in 1..Len(objs[m]) : NoDuplicates(objs[m][n].added))
    /\ [][\A m \in live : \A n \in 1..Len(objs[m]) :
            Accounted(objs[m], ticks[m], n) \subseteq Accounted(objs'[m], ticks'[m], n)]_vars

\* the candidates that arrived for entry n before now and were queued: those
\* in its queue and those in the array a drain loop over its queue iterates
QueuedEarlier(m, n) ==
    Range(objs[m][n].pendingCandidates)
       \cup UNION {Range(ticks[m][t].arr) :
                     t \in {u \in 1..Len(ticks[m]) : Draining(m, u, n)}}

\* a drain loop passes the candidates of the queue on in queue order
DrainKeepsOrder ==
    \A m \in live : \A t \in 1..Len(ticks[m]) :
        ticks[m][t].st = "drain"
        => IsSubSeq(Flushed(m, t), objs[m][ticks[m][t].conn].added)

\* C24: the candidates of one session are passed to addIceCandidate in the
\* order in which they arrived, also when some arrive while the queue of
\* earlier ones is being drained: the queue is applied in queue order, and a
\* candidate that arrives later is applied only after all queued before it.
C24_AppliedInArrivalOrder ==
    /\ []DrainKeepsOrder
    /\ [][\A m \in live : \A t \in TickIds :
            (Running(m, t, "ice") /\ HandleIceCandidate(m, t))
            => LET n == connections[m][Signal(m, t).from_user]
               IN IF n = 0 THEN TRUE
                  ELSE objs'[m][n].added # objs[m][n].added
                       => QueuedEarlier(m, n) \subseteq Range(objs[m][n].added)]_vars

\* the candidates of peer p that m has received, or is about to handle, and
\* not yet applied: in an envelope of its inbox or of a poll tick, or in the
\* queue of the session stored for p
Waiting(m, p) ==
    {DecodePayload(e.encrypted_payload).val : e \in IceEnvelopes(m, p)}
       \cup (IF connections[m][p] = 0 THEN {}
             ELSE Range(objs[m][connections[m][p]].pendingCandidates))

\* the candidates applied to the transport of the session stored for p
AppliedToStored(m, p) ==
    IF connections[m][p] = 0 THEN {} ELSE Range(objs[m][connections[m][p]].added)

\* tick t handles a candidate of p while p's offer is still to be handled, or
\* handles p's offer
BeforeOfferApplied(m, t, p) ==
    /\ IsTick(m, t) /\ ticks[m][t].st = "run"
    /\ Signal(m, t).from_user = p
    /\ \/ Pending(m, p, "offer") /\ HandleIceCandidate(m, t)
       \/ HandleOffer(m, t)

\* C25: a candidate of a peer that arrives before the peer's offer has been
\* processed is not lost: the step that handles it without a session, and the
\* step in which handleOffer discards a half-open session that had queued it,
\* keep it waiting for (or applied to) the responder session of the offer.
C25_EarlyCandidateKept ==
    [][\A m \in live : \A t \in TickIds : \A p \in Peers(m) :
          BeforeOfferApplied(m, t, p)
          => Waiting(m, p) \subseteq (Waiting(m, p)' \cup AppliedToStored(m, p)')]_vars

\* C26: the signaling poll never overlaps with itself: at any time at most
\* one poll tick (the pollSignals request and the handling of its envelopes
\* one after the other) is in progress; a timer that fires while the previous
\* tick is still awaiting completion starts no second tick.
C26_PollNeverOverlaps == \A m \in live : Len(ticks[m]) <= 1

\* the step starts a poll tick of m: a timer fires and pollSignals is invoked
TickStarts(m) == PollTick(m) \/ PollFails(m)

\* C27: after stopPolling() has returned no further poll tick is started
\* (pollSignals is not invoked again) until init() starts the loop again:
\* stopPolling leaves no timer alive, no tick starts while the loop is
\* stopped, and only init() starts it.
C27_NoTickAfterStop ==
    /\ [][\A m \in live :
            StopPolling(m) => pollingInterval'[m] = 0 /\ timers'[m] = {}]_vars
    /\ [][\A m \in live : pollingInterval[m] = 0 => ~TickStarts(m)]_vars
    /\ [][\A m \in live :
            (pollingInterval[m] = 0 /\ pollingInterval'[m] # 0) => InitManager(m)]_vars

\* the loop has been stopped after init() while an offer waits in the inbox
\* and a session, made from an earlier offer, is stored
C27_Witness ==
    /\ callbacks["@bob"] # 0 /\ pollingInterval["@bob"] = 0
    /\ relay["@bob"] # <<>>
    /\ connections["@bob"]["@alice"] # 0

\* C28: a poll request that fails (pollSignals rejects) changes no session,
\* key or callback state, raises no onError or onStateChange and no exception
\* to the application, and leaves the poll loop running, so that the next
\* tick polls again.
C28_PollFailureSwallowed ==
    [][\A m \in live :
          PollFails(m)
          => /\ out' = <<>>
             /\ UNCHANGED <<connections, objs, sessionKeys, keyBufs, callbacks,
                            currentUser, ticks, relay>>
             /\ pollingInterval'[m] = pollingInterval[m]
             /\ timers'[m] = timers[m] /\ timers'[m] # {}]_vars

\* a state a failing poll request starts from and ends in (the step emits
\* nothing and nothing was emitted before): a session and its key are stored,
\* an envelope waits in the inbox, and the loop runs
C28_Witness ==
    /\ "@alice" \in live /\ out = <<>>
    /\ ENABLED PollFails("@alice")
    /\ connections["@alice"]["@bob"] # 0
    /\ sessionKeys["@alice"]["@bob"] # NoKey
    /\ relay["@alice"] # <<>>
    /\ pollingInterval["@alice"] # 0

\* the step is the continuation of a handler of tick t whose transport
\* operation has failed: setRemoteDescription, createAnswer or
\* setLocalDescription in handleOffer, setRemoteDescription in handleAnswer
DescriptionFails(m, t) ==
    /\ IsTick(m, t) /\ ticks[m][t].st \in {"offer", "respond", "answer"}
    /\ \/ HandleOfferRejected(m, t)
       \/ HandleOfferAnswerFails(m, t)
       \/ HandleAnswerRejected(m, t)

Undecodable(m, t) ==
    /\ IsTick(m, t) /\ ticks[m][t].st = "run"
    /\ ~JsonParse(PgpDecrypt(Signal(m, t).encrypted_payload)).ok
    /\ ~JsonParse(Signal(m, t).encrypted_payload).ok

\* C30: an inbound envelope whose payload can neither be decrypted and parsed
\* nor parsed directly as JSON is dropped: handleSignal returns normally (the
\* tick goes on to its next envelope), no session or key is created, changed
\* or removed, no callback fires and nothing is sent.
C30_UndecodableDropped ==
    [][\A m \in live : \A t \in TickIds :
          (Undecodable(m, t) /\ HandleUndecodable(m, t))
          => /\ out' = <<>>
             /\ ticks'[m] = SetTick(ticks[m], t, Rest(ticks[m][t]))
             /\ UNCHANGED <<connections, objs, sessionKeys, keyBufs, callbacks,
                            currentUser, pollingInterval, timers, relay>>]_vars

\* an undecodable envelope of @bob is about to be handled while a session and
\* a key for @bob are stored
C30_Witness ==
    /\ "@alice" \in live
    /\ \E t \in 1..Len(ticks["@alice"]) :
          Undecodable("@alice", t) /\ Signal("@alice", t).from_user = "@bob"
    /\ connections["@alice"]["@bob"] # 0
    /\ sessionKeys["@alice"]["@bob"] # NoKey

\* connect() that made transport n is suspended at an await, and the session
\* it stored has been taken out of the session map and its transport closed
\* (disconnect, or handleOffer's collision branch)
SuspendedTornDown(m, n) ==
    /\ n \in 1..Len(objs[m])
    /\ objs[m][n].cpc \in {"offer", "sendfail"}
    /\ objs[m][n].closed
    /\ connections[m][objs[m][n].peer] # n

\* the step resumes the connect() activation that made transport n
ConnectResumes(m, n) ==
    ConnectOffer(m, n) \/ ConnectOfferFails(m, n) \/ ConnectSendFails(m, n)

\* C31: when disconnect(peerId) or the collision rule has removed the session
\* while connect(peerId) was suspended at an await, the continuation of
\* connect has no effect: it leaves the state of the session now stored for
\* peerId as it is, fires neither onStateChange nor onError for peerId and
\* sends no connection-offer.
C31_ResumeAfterTeardownNoEffect ==
    [][\A m \in live : \A n \in 1..MaxPcs :
          (SuspendedTornDown(m, n) /\ ConnectResumes(m, n))
          => LET p == objs[m][n].peer
             IN /\ Fired(out', "onStateChange", p) = {}
                /\ Fired(out', "onError", p) = {}
                /\ \A i \in 1..Len(out') : out'[i].ev # "sendSignal"
                /\ connections'[m][p] = connections[m][p]
                /\ GetConnectionStatus(m, p)' = GetConnectionStatus(m, p)]_vars

\* the session state the claim assigns to a transport state, Null for none
MapsTo(s) ==
    IF s = "connected" THEN "connected"
    ELSE IF s \in {"disconnected", "closed"} THEN "disconnected"
    ELSE IF s = "failed" THEN "failed"
    ELSE Null

\* the step is the transport-level 'connected' event or the open event of the
\* data channel of the session stored for p
ComesUp(m, p) ==
    /\ connections[m][p] # 0
    /\ \/ ConnectionStateChange(m, connections[m][p], "connected")
       \/ /\ ChannelOf(m, p) # 0
          /\ ChannelOpen(m, ChannelOf(m, p))

\* C32: for a session in 'connecting' the transport-level 'connected' event
\* and the data channel's open event commute: whichever comes first sets the
\* session to 'connected' and reports onStateChange(peerId, 'connected'), the
\* other, coming later, leaves it 'connected'.  Transport states
\* 'disconnected' and 'closed' set the session to 'disconnected', 'failed' to
\* 'failed', every other transport state leaves the session state as it is.
C32_ConnectedAndOpenCommute ==
    [][\A m \in live : \A p \in Peers(m) :
          /\ (GetConnectionStatus(m, p) \in {"connecting", "connected"} /\ ComesUp(m, p))
             => /\ GetConnectionStatus(m, p)' = "connected"
                /\ GetConnectionStatus(m, p) = "connecting"
                      => LastReported(out', p) = "connected"
          /\ \A s \in ConnectionStates :
                (connections[m][p] # 0 /\ ConnectionStateChange(m, connections[m][p], s))
                => GetConnectionStatus(m, p)' =
                      IF MapsTo(s) = Null THEN GetConnectionStatus(m, p) ELSE MapsTo(s)]_vars

\* both events have arrived for the session of @bob, the open event last:
\* the session is 'connected' and that state has just been reported
C32_Witness ==
    /\ Len(objs["@alice"]) = 1 /\ connections["@alice"]["@bob"] = 1
    /\ used.events = 2
    /\ objs["@alice"][1].dc = "open"
    /\ objs["@alice"][1].state = "connected"
    /\ LastReported(out, "@bob") = "connected"

\* transport n is not the transport of the session stored for its peer
Stale(m, n) == connections[m][objs[m][n].peer] # n

\* the step is an event of transport n or of its data channel
EventOf(m, n) ==
    \/ \E s \in ConnectionStates : ConnectionStateChange(m, n, s)
    \/ IceConnectionFailed(m, n)
    \/ OnDataChannel(m, n)
    \/ ChannelOpen(m, n) \/ ChannelClose(m, n)
    \/ ChannelError(m, n)

\* every transport that is not closed belongs to the session stored for its peer
OpenTransportsAreStored ==
    \A m \in live : \A n \in 1..Len(objs[m]) : ~objs[m][n].closed => ~Stale(m, n)

\* C33: each PeerSession exclusively owns its transport and data channel: an
\* event of a transport or channel whose session was discarded or replaced
\* (collision rule, disconnect, a second connect to the peer) never changes
\* the state, the data-channel handle or the flag of the session now stored
\* for that peer, and every transport created and not closed is the transport
\* of the session stored for its peer.
C33_SessionOwnsItsTransport ==
    /\ []OpenTransportsAreStored
    /\ [][\A m \in live : \A n \in 1..MaxPcs :
            (/\ n \in 1..Len(objs[m])
             /\ Stale(m, n) /\ connections[m][objs[m][n].peer] # 0
             /\ EventOf(m, n))
            => LET c == connections[m][objs[m][n].peer]
               IN /\ objs'[m][c].state = objs[m][c].state
                  /\ objs'[m][c].dataChannel = objs[m][c].dataChannel
                  /\ objs'[m][c].hasRemoteDescription = objs[m][c].hasRemoteDescription]_vars

\* the step leaves the session entry c of m in place with its state and flag,
\* and calls nothing back
SessionGoesOn(m, c) ==
    /\ out' = <<>>
    /\ connections'[m] = connections[m]
    /\ objs'[m][c].state = objs[m][c].state
    /\ objs'[m][c].hasRemoteDescription = objs[m][c].hasRemoteDescription
    /\ ~objs'[m][c].closed

\* C36: a candidate whose application fails (addIceCandidate throws), applied
\* at once or during the flush of the queue, does not abort the session: its
\* state and hasRemoteDescription stay, neither onError nor onStateChange
\* fires, the flush passes on to the next queued candidate, in order, and
\* after the last one the queue is empty.
C36_RejectedCandidateSkipped ==
    [][\A m \in live : \A t \in TickIds :
          /\ (Running(m, t, "ice") /\ HandleIceCandidateRejected(m, t))
             => SessionGoesOn(m, connections[m][Signal(m, t).from_user])
          /\ (IsTick(m, t) /\ ticks[m][t].st = "drain" /\ DrainStepRejected(m, t))
             => LET tk  == ticks[m][t]
                    c   == tk.conn
                    arr == IF tk.det THEN tk.arr ELSE objs[m][c].pendingCandidates
                IN /\ SessionGoesOn(m, c)
                   /\ IF tk.i < Len(arr)
                      THEN /\ objs'[m][c].added = Append(objs[m][c].added, arr[tk.i + 1])
                           /\ ticks'[m] = [ticks[m] EXCEPT ![t].i = tk.i + 1]
                      ELSE objs'[m][c].pendingCandidates = <<>>]_vars

\* the flush of the session of @bob is at its second candidate after the
\* transport has refused the first
C36_Witness ==
    /\ "@alice" \in live /\ connections["@alice"]["@bob"] # 0
    /\ \E t \in 1..Len(ticks["@alice"]) :
          LET tk == ticks["@alice"][t]
              o  == objs["@alice"][connections["@alice"]["@bob"]]
          IN /\ tk.st = "drain" /\ tk.conn = connections["@alice"]["@bob"]
             /\ ~tk.det /\ tk.i = 2
             /\ o.rejected = <<o.pendingCandidates[1]>>
             /\ o.added = o.pendingCandidates
             /\ o.state = "connecting" /\ o.hasRemoteDescription

\* the step is an operation or a signal handler for peer p that fails: a
\* failed connect, an undecodable envelope, a transport that cannot be
\* constructed, a description or a candidate the transport refuses, a
\* sendMessage that returns false
ErrorFor(m, p) ==
    \/ ConnectFails(m, p)
    \/ \E t \in TickIds :
          /\ IsTick(m, t) /\ ticks[m][t].st = "run"
          /\ Signal(m, t).from_user = p
          /\ \/ HandleUndecodable(m, t)
             \/ HandleOfferThrows(m, t)
             \/ HandleIceCandidateRejected(m, t)
    \/ \E t \in TickIds :
          /\ IsTick(m, t) /\ ticks[m][t].st \in {"offer", "respond", "answer"}
          /\ ticks[m][t].peer = p
          /\ DescriptionFails(m, t)
    \/ \E t \in TickIds :
          /\ IsTick(m, t) /\ ticks[m][t].st = "drain"
          /\ objs[m][ticks[m][t].conn].peer = p
          /\ DrainStepRejected(m, t)
    \/ /\ SendReturns(out', p)
       /\ out'[1].info = <<"returns", FALSE>>
       /\ \E text \in Texts : SendMessage(m, p, text)

\* the step leaves the session and the key of every peer other than p as they
\* were and calls nothing back for them
OthersUntouched(m, p) ==
    \A q \in Peers(m) \ {p} :
        /\ SameFor(m, q)
        /\ \A i \in 1..Len(out') : out'[i].peer # q

\* C34: per-peer isolation: an error while an operation or a signal for peer
\* p is handled (failed connect, undecodable envelope, failed description,
\* failed candidate, failed send) leaves the session (state, queue, flag,
\* handles) and the session key of every other peer q as they were and calls
\* nothing back for q: a step that touches another peer is no such error.
C34_ErrorsStayWithTheirPeer ==
    [][\A m \in live : \A p \in Peers(m) :
          IF OthersUntouched(m, p) THEN TRUE ELSE ~ErrorFor(m, p)]_vars

\* connect toward @alice has just failed while a session and a key for @carol
\* are stored: the session of @carol is still 'connecting'
C34_Witness ==
    /\ "@bob" \in live
    /\ Fired(out, "onError", "@alice") # {}
    /\ connections["@bob"]["@alice"] # 0
    /\ objs["@bob"][connections["@bob"]["@alice"]].state = "failed"
    /\ connections["@bob"]["@carol"] # 0
    /\ objs["@bob"][connections["@bob"]["@carol"]].state = "connecting"
    /\ sessionKeys["@bob"]["@carol"] # NoKey

\* tick t of m is about to handle a connection-offer of p that m has answered
\* before: the session stored for p is the responder session made from it,
\* with the remote and the local description set and the key of the offer
Redelivered(m, t) ==
    /\ Running(m, t, "offer")
    /\ LET p == Signal(m, t).from_user
           c == connections[m][p]
       IN /\ c # 0
          /\ objs[m][c].role = "responder"
          /\ objs[m][c].remote /\ objs[m][c].local /\ ~objs[m][c].closed
          /\ Payload(m, t).val.aesKey = ExportKey(sessionKeys[m], p)

\* C35: when a connection-offer is delivered a second time after the
\* responder has created its session and answered, the responder's session
\* (transport, state, hasRemoteDescription, data channel) stays as it is and
\* no second connection-answer is sent, whichever identifier is the higher.
C35_RedeliveredOfferIgnored ==
    [][\A m \in live : \A t \in TickIds :
          (Redelivered(m, t)
             /\ (HandleOfferIgnored(m, t) \/ HandleOffer(m, t) \/ HandleOfferThrows(m, t)))
          => /\ UNCHANGED <<connections, objs, sessionKeys>>
             /\ out' = <<>>
             /\ ticks'[m] = SetTick(ticks[m], t, Rest(ticks[m][t]))]_vars

\* the envelopes manager m has still to decode: in its inbox or in a poll tick
Inbound(m) ==
    Range(relay[m]) \cup UNION {Range(ticks[m][t].batch) : t \in 1..Len(ticks[m])}

\* the payload string that was passed to sendSignal for this wire payload
SentPayload(x) == IF x[1] = "b64" THEN x[2] ELSE x

\* the decoded payload is one of the envelope's kind
OfKind(type, v) == IF type = "ice" THEN v \in Candidates ELSE v.type = type

\* C37: signaling payloads round-trip exactly: for every offer, answer or
\* candidate payload passed to sendSignal, sent asymmetrically encrypted or
\* in plaintext, handleSignal of the recipient decodes the envelope to a
\* payload equal to the original, of the envelope's kind.
C37_SignalPayloadRoundTrip ==
    \A m \in live : \A e \in Inbound(m) :
        LET d == DecodeSignal(privateKey[m], e.encrypted_payload)
        IN /\ d.ok
           /\ IF d.ok
              THEN /\ JsonStringify(d.val) = SentPayload(e.encrypted_payload)
                   /\ OfKind(e.type, d.val)
              ELSE FALSE

\* two frames, or messages, are the same
SameFrame(f, g) == f[1] = g[1] /\ f[2] = g[2]

\* the last step was a successful sendMessage(m, text) of manager s: the frame
\* in out is what s has put on the channel toward m
SentTo(m, s, text) ==
    /\ Len(out) = 2
    /\ out[1].ev = "send" /\ out[1].peer = m
    /\ out[2].ev = "sendMessage" /\ out[2].info = <<"returns", TRUE>>
    /\ \E iv \in IVs : SameFrame(out[1].info, FrameOf(sessionKeys[s], m, text, iv))

\* C38: end-to-end message fidelity: for every text passed to a successful
\* sendMessage on one endpoint, the text delivered to onMessage on the other
\* endpoint is that text, whether or not the sender and the receiver have a
\* session key installed (encrypted frame, or plaintext frame taken as
\* plaintext on receipt).
C38_MessageDeliveredAsSent ==
    [][\A m \in live : \A n \in 1..MaxPcs : \A text \in Texts :
          (/\ n <= Len(objs[m]) /\ objs[m][n].peer \in live
           /\ SentTo(m, objs[m][n].peer, text)
           /\ ReceiveFrame(m, n))
          => /\ Len(out') = 1
             /\ out'[1].ev = "onMessage" /\ out'[1].peer = objs[m][n].peer
             /\ SameFrame(out'[1].info, PlainText(text))]_vars

\* the sessions @alice and @bob hold for each other are both 'connected'
BothConnected ==
    /\ GetConnectionStatus("@alice", "@bob") = "connected"
    /\ GetConnectionStatus("@bob", "@alice") = "connected"

\* C39: session-key agreement: whenever the sessions two managers hold for
\* each other are both 'connected', the session key @alice stores for @bob
\* equals the one @bob stores for @alice, also after simultaneous initiation
\* and after connect() on a side that already holds a responder session.
C39_ConnectedPeersShareKey ==
    (live = Managers /\ BothConnected)
    => sessionKeys["@alice"]["@bob"] = sessionKeys["@bob"]["@alice"]

\* the poll loop of the manager is running
PollingActive(m) == pollingInterval[m] # 0 /\ pollingInterval[m] \in timers[m]

\* some peer's session is still being negotiated
NegotiationPending(m) ==
    \E q \in Peers(m) : GetConnectionStatus(m, q) = "connecting"

\* C40: signal reception stays alive while a negotiation is pending: a step
\* of an initialised manager whose poll loop runs, other than a call of
\* stopPolling() itself, leaves the loop running whenever it leaves a session
\* in state 'connecting'; in particular disconnect(p) does not stop the
\* delivery of signals for another peer whose session still exists.
C40_PollingWhileConnecting ==
    [][\A m \in Managers :
          (/\ Inited(m) /\ PollingActive(m)
           /\ NegotiationPending(m)'
           /\ ~StopPolling(m))
          => PollingActive(m)']_vars

====
